---- MODULE Spec2Model ----
(***************************************************************************)
(* State-machine model of the EasyYoutube recorder front end.              *)
(*                                                                         *)
(* The repository holds several independent React components and one       *)
(* service class.  Each is modelled as its own group of variables with its *)
(* own specification; the variables of the other groups stay at their      *)
(* initial values under a specification that does not step them.           *)
(*                                                                         *)
(*   SvcSpec   RecordRTCService.initialize driven directly                 *)
(*   HookSpec  useRecording hook together with the RecordRTCService        *)
(*   P0Spec    VideoRecorder of part_000 (MediaRecorder, start/pause/stop) *)
(*   P1Spec    VideoRecorder of part_001 (canvas compositor, view modes)   *)
(*   V1Spec    first VideoRecorder of components/VideoRecorder.tsx         *)
(*   V2Spec    second VideoRecorder of VideoRecorder.tsx and Teleprompter  *)
(*   DlSpec    downloadVideo utility                                       *)
(*   SfSpec    ScriptForm submit                                           *)
(*   UiSpec    VideoRecorder of part_004 with its RecordingControls        *)
(*   CrSpec    CanvasRecorder stream initialization                        *)
(*   MsSpec    useMediaStreams hook and changeViewMode of part_004         *)
(*   VtSpec    pulseTrack and syncViewModeChange on one video track        *)
(*   AmSpec    AudioMonitor                                                *)
(***************************************************************************)
EXTENDS Integers, Sequences, FiniteSets, TLC

\* ------------------------------------------------------------------ bounds
\* Number of RecordRTCService instances a run may construct.
MaxInstances == 3

\* Largest recordingDuration, in seconds, a run counts up to.
MaxDuration == 2

\* Number of canvas capture streams a run may create.
MaxStreams == 6

\* Number of device requests (getUserMedia / getDisplayMedia) a run may issue.
MaxInits == 3

\* Number of initStreams timers that may be pending at once.
MaxTimers == 2

\* Number of pulseTrack / syncViewModeChange calls a run may make.
MaxCalls == 3

\* Number of AudioContexts a run may create in the AudioMonitor.
MaxContexts == 3

\* Number of audio-level polls a run counts up to.
MaxPolls == 3

\* Number of recordings a run may start in one recorder component.
MaxRecordings == 3

\* Largest number of chunks kept in a chunk list.
MaxChunks == 2

\* Scroll height of the teleprompter text, in pixels.
MaxScroll == 4

\* Number of requests a run may send to the content service.
MaxRequests == 2

\* Sizes of the Blob a dataavailable event may carry.
ChunkSizes == {0, 1}

\* ---------------------------------------------------------- media streams
\* A MediaStream is represented by whether it exists and by the length of
\* getAudioTracks() / getVideoTracks().
NoStream == [present |-> FALSE, audio |-> 0, video |-> 0]

AudioStream(n) == [present |-> TRUE, audio |-> n, video |-> 0]

CanvasStreamValue == [present |-> TRUE, audio |-> 0, video |-> 1]

\* The streams a caller may hand to RecordRTCService.initialize as audioStream:
\* null, a stream without audio tracks, a microphone stream.
AudioArgs == {NoStream, AudioStream(0), AudioStream(1)}

\* Outcomes of navigator.mediaDevices.getUserMedia({audio}): a microphone
\* stream with one audio track, or a rejection (permission denied).
MicOutcomes == {"granted", "denied"}

NoRecorder == [present |-> FALSE, audio |-> 0, started |-> FALSE, mimeType |-> "none"]

VARIABLES
  w_directAudio,      \* window._directAudioStream
  svc,                \* the RecordRTCService instance under consideration
  s_pc,               \* position of the instance's initialize() call
  s_emergency,        \* id of the instance whose acquireEmergencyAudio() is pending, 0 if none
  s_arg               \* the audioStream argument of the initialize() call in progress

svcVars == <<w_directAudio, svc, s_pc, s_emergency, s_arg>>

\* ------------------------------------------------------- RecordRTCService
\* A freshly constructed RecordRTCService (field initialisers of the class).
NewService(id) ==
  [id |-> id,
   recorder |-> NoRecorder,
   canvasStream |-> NoStream,
   audioStream |-> NoStream,
   combinedStream |-> NoStream,
   isRecording |-> FALSE,
   destroyed |-> FALSE]

\* The hard-coded mimeType both RecordRTCPromisesHandler constructions pass.
ServiceMimeType == "video/webm;codecs=vp8,opus"

\* new RecordRTCPromisesHandler(combinedStream, {...}): the recorder keeps the
\* stream it was handed.
NewRecorder(stream) ==
  [present |-> TRUE, audio |-> stream.audio, started |-> FALSE, mimeType |-> ServiceMimeType]

HasAudio(stream) == stream.present /\ stream.audio > 0

\* createCombinedStream(): returns the new combinedStream, the new value of
\* window._directAudioStream and whether acquireEmergencyAudio() was launched.
createCombinedStream(s, direct) ==
  IF ~s.canvasStream.present
  THEN [combined |-> s.combinedStream, direct |-> direct, emergency |-> FALSE]
  ELSE LET videoOnly == [present |-> TRUE, audio |-> 0, video |-> s.canvasStream.video]
           audioSource == IF HasAudio(s.audioStream) THEN s.audioStream
                          ELSE IF HasAudio(direct) THEN direct
                          ELSE NoStream
       IN  IF ~HasAudio(audioSource)
           THEN [combined |-> videoOnly, direct |-> direct, emergency |-> TRUE]
           ELSE [combined |-> [videoOnly EXCEPT !.audio = audioSource.audio],
                 direct |-> audioSource,
                 emergency |-> FALSE]

\* The tail of initialize() once this.audioStream is settled: combine, build
\* the recorder when a combined stream exists.  ctorOk = FALSE models the
\* RecordRTCPromisesHandler constructor throwing.
FinishInitialize(s, direct, ctorOk) ==
  LET c  == createCombinedStream(s, direct)
      s1 == [s EXCEPT !.combinedStream = c.combined]
  IN  [svc |-> IF c.combined.present /\ ctorOk
               THEN [s1 EXCEPT !.recorder = NewRecorder(c.combined)]
               ELSE s1,
       direct |-> c.direct,
       emergency |-> c.emergency,
       threw |-> c.combined.present /\ ~ctorOk]

\* initialize(canvasStream, audioStream), first part: up to the await of
\* getUserMedia when no usable audioStream was supplied.
NeedsMic(audioArg) == ~audioArg.present \/ audioArg.audio = 0

\* Driver: a caller constructs a service and calls initialize on it.
Svc_Initialize(audioArg, ctorOk) ==
  /\ s_pc \in {"new", "resolved", "rejected"}
  /\ svc.id < MaxInstances
  /\ LET s0 == [NewService(svc.id + 1) EXCEPT !.canvasStream = CanvasStreamValue]
     IN  IF NeedsMic(audioArg)
         THEN /\ svc' = s0
              /\ s_pc' = "awaitMic"
              /\ UNCHANGED <<w_directAudio, s_emergency>>
         ELSE LET r == FinishInitialize([s0 EXCEPT !.audioStream = audioArg],
                                        w_directAudio, ctorOk)
              IN  /\ svc' = r.svc
                  /\ w_directAudio' = r.direct
                  /\ s_emergency' = IF r.emergency THEN r.svc.id ELSE s_emergency
                  /\ s_pc' = IF r.threw THEN "rejected" ELSE "resolved"
  /\ s_arg' = audioArg

\* The getUserMedia promise inside initialize() settles.
Svc_InitMicSettles(outcome, ctorOk) ==
  /\ s_pc = "awaitMic"
  /\ LET got == IF outcome = "granted" THEN AudioStream(1) ELSE NoStream
         direct1 == IF outcome = "granted" THEN got ELSE w_directAudio
         r == FinishInitialize([svc EXCEPT !.audioStream = got], direct1, ctorOk)
     IN  /\ svc' = r.svc
         /\ w_directAudio' = r.direct
         /\ s_emergency' = IF r.emergency THEN r.svc.id ELSE s_emergency
         /\ s_pc' = IF r.threw THEN "rejected" ELSE "resolved"
  /\ UNCHANGED s_arg

\* acquireEmergencyAudio(): its getUserMedia promise settles.  On success the
\* instance that launched it gets the stream, recombines and rebuilds its
\* recorder; on failure nothing changes.
acquireEmergencyAudio(s, outcome) ==
  IF outcome = "granted"
  THEN LET s1 == [s EXCEPT !.audioStream = AudioStream(1)]
           c  == createCombinedStream(s1, AudioStream(1))
           s2 == [s1 EXCEPT !.combinedStream = c.combined]
       IN  IF c.combined.present
           THEN [s2 EXCEPT !.recorder = NewRecorder(c.combined)]
           ELSE s2
  ELSE s

Svc_EmergencySettles(outcome) ==
  /\ s_emergency # 0
  /\ s_emergency' = 0
  /\ svc' = IF s_emergency = svc.id THEN acquireEmergencyAudio(svc, outcome) ELSE svc
  /\ w_directAudio' = IF outcome = "granted" THEN AudioStream(1) ELSE w_directAudio
  /\ UNCHANGED <<s_pc, s_arg>>

\* RecordRTCService.startRecording() (lines 597-622): throws without a
\* recorder, otherwise starts it and sets isRecording.
startRecording(s) ==
  [s EXCEPT !.recorder.started = TRUE, !.isRecording = TRUE]

Svc_StartRecording ==
  /\ s_pc = "resolved"
  /\ svc.recorder.present
  /\ ~svc.isRecording
  /\ svc' = startRecording(svc)
  /\ UNCHANGED <<w_directAudio, s_pc, s_emergency, s_arg>>

\* Another part of the page (cleanupAudioResources, setDirectAudioStream)
\* clears or sets window._directAudioStream.
Env_SetDirectAudio(stream) ==
  /\ w_directAudio # stream
  /\ w_directAudio' = stream
  /\ UNCHANGED <<svc, s_pc, s_emergency, s_arg>>

SvcInit ==
  /\ w_directAudio \in {NoStream, AudioStream(1)}
  /\ svc = NewService(0)
  /\ s_pc = "new"
  /\ s_emergency = 0
  /\ s_arg = NoStream

\* =================================================== useRecording (hook)
VARIABLES
  h_recordingState,   \* useState<RecordingState>: idle | recording | paused | processing
  h_error,            \* useState<string | null>, "none" for null
  h_videoUrl,         \* useState<string | null>: 0 for null, else the number of the object URL
  h_canvasStream,     \* the canvasStream prop: TRUE when a stream is passed
  h_timer,            \* timerRef.current holds a running interval
  h_pc,               \* the await at which startRecording / stopRecording is suspended
  h_catches,          \* parity of the number of failure branches taken so far
  h_rejected,         \* some call's promise rejected (an exception escaped the handler)
  h_cleanupPending,   \* the cleanup of the effect keyed on [videoUrl] is scheduled
  h_recordingDuration \* useState<number>: whole seconds shown for the recording

hookVars == <<h_recordingState, h_error, h_videoUrl, h_canvasStream, h_timer,
              h_pc, h_catches, h_rejected, h_cleanupPending, h_recordingDuration>>

\* What the code throws or is rejected with: an Error-like object with a
\* message, or (RecordRTC's promise handler) a bare string.
Err(msg) == [isError |-> TRUE, message |-> msg]

StrErr(msg) == [isError |-> FALSE, message |-> msg]

\* catch block of startRecording (lines 143-147): (err as Error).message.
StartCatchMessage(err) == "Failed to start recording: " \o err.message

\* catch block of stopRecording (lines 202-206):
\* err instanceof Error ? err.message : String(err).
StopCatchMessage(err) == "Failed to stop recording: " \o err.message

\* A catch block of startRecording that reports the error and leaves
\* recordingState where the handler had put it.
StartCatch_leavesProcessing(err) ==
  /\ h_error' = StartCatchMessage(err)
  /\ UNCHANGED h_recordingState
  /\ h_pc' = "none"
  /\ h_catches' = 1 - h_catches
  /\ UNCHANGED h_rejected

StartCatch(err) ==
  /\ h_error' = StartCatchMessage(err)
  /\ h_recordingState' = "idle"
  /\ h_pc' = "none"
  /\ h_catches' = 1 - h_catches
  /\ UNCHANGED h_rejected

\* A catch block that reports the error and leaves recordingState where the
\* handler had put it.
StopCatch_leavesProcessing(err) ==
  /\ h_error' = StopCatchMessage(err)
  /\ h_recordingState' = "processing"
  /\ h_pc' = "none"
  /\ h_catches' = 1 - h_catches
  /\ UNCHANGED h_rejected

StopCatch(err) ==
  /\ h_error' = StopCatchMessage(err)
  /\ h_recordingState' = "idle"
  /\ h_pc' = "none"
  /\ h_catches' = 1 - h_catches
  /\ UNCHANGED h_rejected

\* Lines 112-113: recordRTCRef.current = new RecordRTCService();
\* await recordRTCRef.current.initialize(canvasStream, audioStream) with an
\* audioStream that has an audio track, so initialize runs to its end without
\* suspending.
StartInitialize(audioStream, ctorOk) ==
  LET s0 == [NewService(svc.id + 1) EXCEPT !.canvasStream = CanvasStreamValue,
                                            !.audioStream = audioStream]
      r  == FinishInitialize(s0, audioStream, ctorOk)
  IN  /\ svc' = r.svc
      /\ w_directAudio' = r.direct
      /\ s_pc' = IF r.threw THEN "rejected" ELSE "resolved"
      /\ s_arg' = audioStream
      /\ UNCHANGED s_emergency

\* startRecording(), from the call to its first suspension.
H_StartRecording(ctorOk) ==
  /\ h_pc = "none"
  /\ svc.id < MaxInstances
  /\ IF ~h_canvasStream
     THEN /\ StartCatch(Err("Canvas stream is not available"))
          /\ UNCHANGED <<svcVars, h_videoUrl, h_cleanupPending, h_recordingDuration>>
     ELSE /\ h_error' = "none"
          /\ h_recordingDuration' = 0
          /\ h_videoUrl' = 0
          /\ h_cleanupPending' = (h_cleanupPending \/ h_videoUrl # 0)
          /\ h_recordingState' = "processing"
          /\ UNCHANGED <<h_catches, h_rejected>>
          /\ IF w_directAudio.present
             THEN /\ StartInitialize(w_directAudio, ctorOk)
                  /\ h_pc' = "start_awaitInit"
             ELSE /\ h_pc' = "start_awaitMic"
                  /\ UNCHANGED svcVars
  /\ UNCHANGED <<h_canvasStream, h_timer>>

\* The getUserMedia promise of line 95 settles.
H_StartMicSettles(outcome, ctorOk) ==
  /\ h_pc = "start_awaitMic"
  /\ IF outcome = "denied"
     THEN /\ StartCatch(Err("Permission denied"))
          /\ UNCHANGED svcVars
     ELSE /\ StartInitialize(AudioStream(1), ctorOk)
          /\ h_pc' = "start_awaitInit"
          /\ UNCHANGED <<h_error, h_recordingState, h_catches, h_rejected>>
  /\ UNCHANGED <<h_videoUrl, h_canvasStream, h_timer, h_cleanupPending, h_recordingDuration>>

\* Lines 115-142, after initialize() has settled: the timer is started and
\* the state set to 'recording'.  RecordRTCService.startRecording() is not
\* called anywhere in the hook.
StartAfterInit ==
  /\ h_timer' = TRUE
  /\ h_recordingState' = "recording"
  /\ h_pc' = "none"
  /\ UNCHANGED <<svcVars, h_error, h_catches, h_rejected>>

H_StartInitSettles ==
  /\ h_pc = "start_awaitInit"
  /\ IF s_pc = "rejected"
     THEN /\ StartCatch(Err("RecordRTC constructor failed"))
          /\ UNCHANGED <<svcVars, h_timer>>
     ELSE StartAfterInit
  /\ UNCHANGED <<h_videoUrl, h_canvasStream, h_cleanupPending, h_recordingDuration>>

\* stopRecording(), from the call to its first suspension.
\* RecordRTCService.stopRecording throws 'No recorder to stop' when the
\* instance holds no recorder.  recordRTCRef.current is never null while the
\* component is mounted (mount effect, lines 21-24).
H_StopRecording ==
  /\ h_pc = "none"
  /\ h_timer' = FALSE
  /\ IF ~svc.recorder.present
     THEN StopCatch(Err("No recorder to stop"))
     ELSE /\ h_recordingState' = "processing"
          /\ h_pc' = "stop_awaitStop"
          /\ UNCHANGED <<h_error, h_catches, h_rejected>>
  /\ UNCHANGED <<svcVars, h_videoUrl, h_canvasStream, h_cleanupPending, h_recordingDuration>>

\* The lines of stopRecording after the recorder's stop promise resolved
\* (lines 171-201): getBlob, object URL, state.
StopPublish ==
  /\ h_videoUrl' = svc.id
  /\ h_cleanupPending' = TRUE
  /\ h_recordingState' = "idle"
  /\ h_pc' = "none"
  /\ UNCHANGED <<h_error, h_catches, h_rejected>>

\* The promise of recorder.stopRecording() settles: RecordRTC rejects with
\* the string 'Empty blob.' or resolves; getBlob on a recorder destroyed in
\* the meantime throws.
H_StopSettles(outcome) ==
  /\ h_pc = "stop_awaitStop"
  /\ IF outcome = "rejected"
     THEN /\ StopCatch(StrErr("Empty blob."))
          /\ UNCHANGED <<svc, h_videoUrl, h_cleanupPending>>
     ELSE IF ~svc.recorder.present
     THEN /\ StopCatch(Err("Cannot read properties of null"))
          /\ UNCHANGED <<svc, h_videoUrl, h_cleanupPending>>
     ELSE /\ svc' = [svc EXCEPT !.isRecording = FALSE]
          /\ StopPublish
  /\ UNCHANGED <<w_directAudio, s_pc, s_emergency, s_arg, h_canvasStream, h_timer,
                 h_recordingDuration>>

\* pauseRecording (lines 210-228).
H_PauseRecording ==
  /\ h_pc = "none"
  /\ h_recordingState = "recording"
  /\ h_timer' = FALSE
  /\ h_recordingState' = "paused"
  /\ UNCHANGED <<svcVars, h_error, h_videoUrl, h_canvasStream, h_pc, h_catches,
                 h_rejected, h_cleanupPending, h_recordingDuration>>

\* resumeRecording (lines 231-235), which the hook returns in place of
\* pauseRecording whenever recordingState is not 'recording' (line 272).
H_ResumeRecording ==
  /\ h_pc = "none"
  /\ h_recordingState # "recording"
  /\ h_timer' = TRUE
  /\ h_recordingState' = "recording"
  /\ UNCHANGED <<svcVars, h_error, h_videoUrl, h_canvasStream, h_pc, h_catches,
                 h_rejected, h_cleanupPending, h_recordingDuration>>

\* The interval started by startTimer (lines 35-51) fires after another
\* second of recording has elapsed: setRecordingDuration(floor(elapsed)).
H_TimerTick ==
  /\ h_timer
  /\ h_recordingDuration < MaxDuration
  /\ h_recordingDuration' = h_recordingDuration + 1
  /\ UNCHANGED <<svcVars, h_recordingState, h_error, h_videoUrl, h_canvasStream,
                 h_timer, h_pc, h_catches, h_rejected, h_cleanupPending>>

\* RecordRTCService.destroy() (lines 627-656).
destroy(s) ==
  [s EXCEPT !.recorder = NoRecorder,
            !.combinedStream = NoStream,
            !.audioStream = NoStream,
            !.isRecording = FALSE,
            !.destroyed = TRUE]

\* Cleanup of the effect keyed on [videoUrl] (lines 238-252), run by React
\* after a render in which videoUrl changed.
H_VideoUrlEffectCleanup ==
  /\ h_cleanupPending
  /\ h_cleanupPending' = FALSE
  /\ h_timer' = FALSE
  /\ svc' = destroy(svc)
  /\ UNCHANGED <<w_directAudio, s_pc, s_emergency, s_arg, h_recordingState, h_error,
                 h_videoUrl, h_canvasStream, h_pc, h_catches, h_rejected,
                 h_recordingDuration>>

\* The parent re-renders with a different canvasStream prop.
H_CanvasStreamProp(b) ==
  /\ h_pc = "none"
  /\ h_canvasStream # b
  /\ h_canvasStream' = b
  /\ UNCHANGED <<svcVars, h_recordingState, h_error, h_videoUrl, h_timer, h_pc,
                 h_catches, h_rejected, h_cleanupPending, h_recordingDuration>>

H_EnvDirectAudio(stream) ==
  /\ Env_SetDirectAudio(stream)
  /\ UNCHANGED hookVars

HookInitVars ==
  /\ h_recordingState = "idle"
  /\ h_error = "none"
  /\ h_videoUrl = 0
  /\ h_timer = FALSE
  /\ h_pc = "none"
  /\ h_catches = 0
  /\ h_rejected = FALSE
  /\ h_cleanupPending = FALSE
  /\ h_recordingDuration = 0

HookIdle == HookInitVars /\ h_canvasStream = FALSE

\* ============================================ browser MIME-type support
VARIABLES
  env_supported       \* the types MediaRecorder.isTypeSupported accepts in this browser

envVars == <<env_supported>>

\* The probe list of utils/media-utils.ts, in list order.
mimeTypes ==
  << "video/webm;codecs=vp9,opus",
     "video/webm;codecs=vp8,opus",
     "video/webm;codecs=h264,opus",
     "video/mp4;codecs=h264,aac",
     "video/webm",
     "video/mp4" >>

\* getSupportedMimeType(): the first entry of the list that isTypeSupported
\* accepts, 'video/webm' when none is.
getSupportedMimeType(supported) ==
  LET accepted == {i \in DOMAIN mimeTypes : mimeTypes[i] \in supported}
  IN  IF accepted = {}
      THEN "video/webm"
      ELSE mimeTypes[CHOOSE i \in accepted : \A j \in accepted : i <= j]

\* Browsers: one supporting every listed type, one with WebM/VP8 only, one
\* with MP4 only, one supporting none of the listed types.
BrowserProfiles ==
  { {mimeTypes[i] : i \in DOMAIN mimeTypes},
    {"video/webm;codecs=vp8,opus", "video/webm"},
    {"video/mp4;codecs=h264,aac", "video/mp4"},
    {} }

EnvInit == env_supported \in BrowserProfiles

EnvFixed == env_supported = {"video/webm;codecs=vp8,opus", "video/webm"}

\* ================================= VideoRecorder of part_000 (MediaRecorder)
VARIABLES
  p0_recordingState,  \* useState: idle | recording | paused
  p0_cameraPermission,\* useState<boolean | null>: "null" | "granted" | "denied"
  p0_ref,             \* mediaRecorderRef.current is a recorder
  p0_mr,              \* state of the recorder created last: none | recording | paused | inactive
  p0_stop,            \* events queued by MediaRecorder.stop(): none | flush | stop
  p0_chunks,          \* chunksRef.current.length
  p0_videoUrl,        \* videoUrl is non-null
  p0_error,           \* useState<string | null>, "none" for null
  p0_timer,           \* timerRef.current holds a running interval
  p0_pc,              \* where startRecording is suspended: none | start_wait
  p0_created,         \* number of MediaRecorder objects constructed
  p0_abandoned,       \* recorders left paused with no reference to them
  p0_stopCalls        \* parity of the number of stopRecording() calls

p0Vars == <<p0_recordingState, p0_cameraPermission, p0_ref, p0_mr, p0_stop, p0_chunks,
            p0_videoUrl, p0_error, p0_timer, p0_pc, p0_created, p0_abandoned,
            p0_stopCalls>>

\* initWebcam() of the mount effect settles.
P0_InitWebcam(outcome) ==
  /\ p0_cameraPermission = "null"
  /\ p0_cameraPermission' = outcome
  /\ p0_error' = IF outcome = "granted" THEN "none"
                 ELSE "Could not access camera and microphone. Please ensure you have given permission."
  /\ UNCHANGED <<p0_recordingState, p0_ref, p0_mr, p0_stop, p0_chunks, p0_videoUrl,
                 p0_timer, p0_pc, p0_created, p0_abandoned, p0_stopCalls>>

\* startRecording(), from the click (Start when idle, Resume when paused) to
\* the awaits of lines 160-163.
P0_StartRecording ==
  /\ p0_pc = "none"
  /\ p0_created < MaxRecordings
  /\ \/ p0_recordingState = "idle" /\ p0_cameraPermission = "granted"
     \/ p0_recordingState = "paused"
  /\ p0_chunks' = 0
  /\ p0_error' = "none"
  /\ p0_videoUrl' = FALSE
  /\ p0_pc' = "start_wait"
  /\ UNCHANGED <<p0_recordingState, p0_cameraPermission, p0_ref, p0_mr, p0_stop,
                 p0_timer, p0_created, p0_abandoned, p0_stopCalls>>

\* startRecording() after the awaits: a new MediaRecorder replaces the one
\* in mediaRecorderRef; ctorOk = FALSE is the constructor or start() throwing.
P0_StartResumes(ctorOk) ==
  /\ p0_pc = "start_wait"
  /\ p0_pc' = "none"
  /\ IF ctorOk
     THEN /\ p0_abandoned' = p0_abandoned +
                               (IF p0_ref /\ p0_mr \in {"recording", "paused"} THEN 1 ELSE 0)
          /\ p0_ref' = TRUE
          /\ p0_mr' = "recording"
          /\ p0_created' = p0_created + 1
          /\ p0_timer' = TRUE
          /\ p0_recordingState' = "recording"
          /\ UNCHANGED p0_error
     ELSE /\ p0_error' = "Recording failed: NotSupportedError"
          /\ p0_recordingState' = "idle"
          /\ UNCHANGED <<p0_ref, p0_mr, p0_created, p0_timer, p0_abandoned>>
  /\ UNCHANGED <<p0_cameraPermission, p0_stop, p0_chunks, p0_videoUrl, p0_stopCalls>>

\* recorder.ondataavailable (lines 181-188): a timeslice chunk of the running
\* recorder; empty chunks are dropped.
P0_DataAvailable(size) ==
  /\ p0_mr = "recording"
  /\ p0_chunks < MaxChunks
  /\ size > 0
  /\ p0_chunks' = p0_chunks + 1
  /\ UNCHANGED <<p0_recordingState, p0_cameraPermission, p0_ref, p0_mr, p0_stop,
                 p0_videoUrl, p0_error, p0_timer, p0_pc, p0_created, p0_abandoned,
                 p0_stopCalls>>

\* pauseRecording() (lines 251-261), offered while 'recording'.
P0_PauseRecording ==
  /\ p0_recordingState = "recording"
  /\ p0_ref
  /\ IF p0_mr = "inactive"
     THEN /\ p0_error' = "Could not pause recording"
          /\ UNCHANGED <<p0_mr, p0_recordingState>>
     ELSE /\ p0_mr' = "paused"
          /\ p0_recordingState' = "paused"
          /\ UNCHANGED p0_error
  /\ UNCHANGED <<p0_cameraPermission, p0_ref, p0_stop, p0_chunks, p0_videoUrl, p0_timer,
                 p0_pc, p0_created, p0_abandoned, p0_stopCalls>>

\* The guard of stopRecording() (line 267).
StopGuard(ref, state) == ref /\ state = "recording"

\* stopRecording() (lines 264-293), offered while 'recording' and 'paused'.
P0_StopRecording ==
  /\ p0_recordingState \in {"recording", "paused"}
  /\ p0_stopCalls' = 1 - p0_stopCalls
  /\ IF StopGuard(p0_ref, p0_recordingState)
     THEN /\ p0_mr' = "inactive"
          /\ p0_stop' = "flush"
          /\ p0_ref' = FALSE
          /\ p0_timer' = FALSE
     ELSE UNCHANGED <<p0_mr, p0_stop, p0_ref, p0_timer>>
  /\ UNCHANGED <<p0_recordingState, p0_cameraPermission, p0_chunks, p0_videoUrl,
                 p0_error, p0_pc, p0_created, p0_abandoned>>

\* The dataavailable event MediaRecorder.stop() fires before the stop event.
P0_FinalData(size) ==
  /\ p0_stop = "flush"
  /\ p0_stop' = "stop"
  /\ p0_chunks' = IF size > 0 /\ p0_chunks < MaxChunks THEN p0_chunks + 1 ELSE p0_chunks
  /\ UNCHANGED <<p0_recordingState, p0_cameraPermission, p0_ref, p0_mr, p0_videoUrl,
                 p0_error, p0_timer, p0_pc, p0_created, p0_abandoned, p0_stopCalls>>

\* recorder.onstop (lines 192-233).
P0_OnStop ==
  /\ p0_stop = "stop"
  /\ p0_stop' = "none"
  /\ IF p0_chunks = 0
     THEN /\ p0_error' = "No video data was captured. Please try again."
          /\ UNCHANGED p0_videoUrl
     ELSE /\ p0_videoUrl' = TRUE
          /\ UNCHANGED p0_error
  /\ p0_recordingState' = "idle"
  /\ UNCHANGED <<p0_cameraPermission, p0_ref, p0_mr, p0_chunks, p0_timer, p0_pc,
                 p0_created, p0_abandoned, p0_stopCalls>>

P0Init ==
  /\ p0_recordingState = "idle"
  /\ p0_cameraPermission = "null"
  /\ p0_ref = FALSE
  /\ p0_mr = "none"
  /\ p0_stop = "none"
  /\ p0_chunks = 0
  /\ p0_videoUrl = FALSE
  /\ p0_error = "none"
  /\ p0_timer = FALSE
  /\ p0_pc = "none"
  /\ p0_created = 0
  /\ p0_abandoned = 0
  /\ p0_stopCalls = 0

\* ================================= VideoRecorder of part_001 (compositor)
VARIABLES
  p1_viewMode,        \* useState<'full' | 'split'>
  p1_recordingState,  \* useState: idle | recording | paused
  p1_screen,          \* screenStream is an active stream
  p1_screenPending,   \* a startScreenCapture() call is awaiting getDisplayMedia
  p1_ref,             \* mediaRecorderRef.current is a recorder
  p1_mr,              \* state of the recorder created last: none | recording | paused | inactive
  p1_loopMode,        \* viewMode captured by the running drawToCanvas closure, "none" without a loop
  p1_frameLayout,     \* layout of the frame drawn last on the recorded canvas
  p1_frames,          \* parity of the number of frames drawn on the recorded canvas
  p1_oldLoops,        \* draw loops still running on canvases of earlier recordings
  p1_chunks,          \* chunksRef.current.length
  p1_videoUrl,        \* videoUrl is non-null
  p1_error,           \* useState<string | null>, "none" for null
  p1_stopTimeout,     \* the 100 ms timeout of stopRecording is pending
  p1_stopEvent,       \* a stop event of a recorder is queued
  p1_created          \* number of composite canvases created by startRecording

p1Vars == <<p1_viewMode, p1_recordingState, p1_screen, p1_screenPending, p1_ref, p1_mr,
            p1_loopMode, p1_frameLayout, p1_frames, p1_oldLoops, p1_chunks, p1_videoUrl,
            p1_error, p1_stopTimeout, p1_stopEvent, p1_created>>

\* drawToCanvas (lines 589-643) draws the layout of the viewMode its closure
\* holds: 'full' draws the webcam, 'split' the screen with the webcam overlay.
LayoutOf(mode) == IF mode = "full" THEN "webcam" ELSE "screen_with_webcam_overlay"

drawToCanvas(closureViewMode) == LayoutOf(closureViewMode)

\* startRecording() (lines 145-229): Start when idle, Resume when paused.
\* getFinalStream() -> createCompositeStream() starts a draw loop whose
\* closure holds the viewMode of this render and draws the first frame.
P1_StartRecording(ctorOk) ==
  /\ p1_recordingState \in {"idle", "paused"}
  /\ p1_created < MaxRecordings
  /\ p1_chunks' = 0
  /\ p1_oldLoops' = p1_oldLoops + (IF p1_loopMode # "none" THEN 1 ELSE 0)
  /\ p1_loopMode' = p1_viewMode
  /\ p1_frameLayout' = drawToCanvas(p1_viewMode)
  /\ p1_frames' = 1 - p1_frames
  /\ IF ctorOk
     THEN /\ p1_ref' = TRUE
          /\ p1_mr' = "recording"
          /\ p1_recordingState' = "recording"
          /\ p1_error' = "none"
     ELSE /\ p1_error' = "Recording failed: NotSupportedError"
          /\ UNCHANGED <<p1_ref, p1_mr, p1_recordingState>>
  /\ p1_created' = p1_created + 1
  /\ UNCHANGED <<p1_viewMode, p1_screen, p1_screenPending, p1_videoUrl, p1_stopTimeout,
                 p1_stopEvent>>

\* A requestAnimationFrame callback of the loop on the recorded canvas: draws
\* and schedules itself again (line 642).
P1_DrawToCanvas ==
  /\ p1_loopMode # "none"
  /\ p1_frameLayout' = drawToCanvas(p1_loopMode)
  /\ p1_frames' = 1 - p1_frames
  /\ UNCHANGED <<p1_viewMode, p1_recordingState, p1_screen, p1_screenPending, p1_ref,
                 p1_mr, p1_loopMode, p1_oldLoops, p1_chunks, p1_videoUrl, p1_error,
                 p1_stopTimeout, p1_stopEvent, p1_created>>

\* toggleViewMode(mode) (lines 373-404).
P1_ToggleViewMode(mode) ==
  /\ p1_viewMode' = mode
  /\ p1_screenPending' = (p1_screenPending \/ (mode = "split" /\ ~p1_screen))
  /\ UNCHANGED <<p1_recordingState, p1_screen, p1_ref, p1_mr, p1_loopMode,
                 p1_frameLayout, p1_frames, p1_oldLoops, p1_chunks, p1_videoUrl, p1_error,
                 p1_stopTimeout, p1_stopEvent, p1_created>>

\* startScreenCapture() settles (lines 291-345) and the .then of
\* toggleViewMode runs (lines 382-390).
P1_ScreenCaptureSettles(granted) ==
  /\ p1_screenPending
  /\ p1_screenPending' = FALSE
  /\ IF granted
     THEN /\ p1_screen' = TRUE
          /\ UNCHANGED <<p1_viewMode, p1_error>>
     ELSE /\ p1_error' = "Screen capture permission denied. Please allow screen sharing to use tutorial view."
          /\ p1_viewMode' = "full"
          /\ UNCHANGED p1_screen
  /\ UNCHANGED <<p1_recordingState, p1_ref, p1_mr, p1_loopMode, p1_frameLayout,
                 p1_frames, p1_oldLoops, p1_chunks, p1_videoUrl, p1_stopTimeout,
                 p1_stopEvent, p1_created>>

\* onended of the screen track (lines 325-329): the user ends screen sharing.
P1_ScreenEnded ==
  /\ p1_screen
  /\ p1_screen' = FALSE
  /\ p1_viewMode' = "full"
  /\ UNCHANGED <<p1_recordingState, p1_screenPending, p1_ref, p1_mr, p1_loopMode,
                 p1_frameLayout, p1_frames, p1_oldLoops, p1_chunks, p1_videoUrl, p1_error,
                 p1_stopTimeout, p1_stopEvent, p1_created>>

\* mediaRecorder.ondataavailable (lines 174-179).
P1_DataAvailable(size) ==
  /\ p1_mr = "recording"
  /\ p1_chunks < MaxChunks
  /\ size > 0
  /\ p1_chunks' = p1_chunks + 1
  /\ UNCHANGED <<p1_viewMode, p1_recordingState, p1_screen, p1_screenPending, p1_ref,
                 p1_mr, p1_loopMode, p1_frameLayout, p1_frames, p1_oldLoops, p1_videoUrl,
                 p1_error, p1_stopTimeout, p1_stopEvent, p1_created>>

\* pauseRecording() (lines 232-242).
P1_PauseRecording ==
  /\ p1_recordingState = "recording"
  /\ p1_ref
  /\ IF p1_mr = "inactive"
     THEN /\ p1_error' = "Could not pause recording"
          /\ UNCHANGED <<p1_mr, p1_recordingState>>
     ELSE /\ p1_mr' = "paused"
          /\ p1_recordingState' = "paused"
          /\ UNCHANGED p1_error
  /\ UNCHANGED <<p1_viewMode, p1_screen, p1_screenPending, p1_ref, p1_loopMode,
                 p1_frameLayout, p1_frames, p1_oldLoops, p1_chunks, p1_videoUrl,
                 p1_stopTimeout, p1_stopEvent, p1_created>>

\* stopRecording() (lines 245-260): requests data and arms a 100 ms timeout.
P1_StopRecording ==
  /\ p1_recordingState = "recording"
  /\ p1_ref
  /\ ~p1_stopTimeout
  /\ p1_stopTimeout' = TRUE
  /\ UNCHANGED <<p1_viewMode, p1_recordingState, p1_screen, p1_screenPending, p1_ref,
                 p1_mr, p1_loopMode, p1_frameLayout, p1_frames, p1_oldLoops, p1_chunks,
                 p1_videoUrl, p1_error, p1_stopEvent, p1_created>>

\* The timeout callback (lines 252-258): stop(), stopTimer(), 'idle'.
\* stop() on a recorder that is already inactive throws and ends the callback.
P1_StopTimeout ==
  /\ p1_stopTimeout
  /\ p1_stopTimeout' = FALSE
  /\ IF p1_mr = "inactive"
     THEN UNCHANGED <<p1_mr, p1_stopEvent, p1_recordingState>>
     ELSE /\ p1_mr' = "inactive"
          /\ p1_stopEvent' = TRUE
          /\ p1_recordingState' = "idle"
  /\ UNCHANGED <<p1_viewMode, p1_screen, p1_screenPending, p1_ref, p1_loopMode,
                 p1_frameLayout, p1_frames, p1_oldLoops, p1_chunks, p1_videoUrl, p1_error,
                 p1_created>>

\* mediaRecorder.onstop (lines 182-214).  cancelAnimationFrame cancels the
\* callback scheduled last, which belongs to the loop of the recorded canvas
\* (cancelCurrent) or to a loop of an earlier canvas.
P1_OnStop(cancelCurrent) ==
  /\ p1_stopEvent
  /\ p1_stopEvent' = FALSE
  /\ IF p1_loopMode # "none" /\ (cancelCurrent \/ p1_oldLoops = 0)
     THEN /\ p1_loopMode' = "none"
          /\ UNCHANGED p1_oldLoops
     ELSE /\ p1_oldLoops' = IF p1_oldLoops > 0 THEN p1_oldLoops - 1 ELSE 0
          /\ UNCHANGED p1_loopMode
  /\ IF p1_chunks = 0
     THEN /\ p1_error' = "No video data was captured. Please try again."
          /\ UNCHANGED p1_videoUrl
     ELSE /\ p1_videoUrl' = TRUE
          /\ UNCHANGED p1_error
  /\ p1_recordingState' = "idle"
  /\ UNCHANGED <<p1_viewMode, p1_screen, p1_screenPending, p1_ref, p1_mr,
                 p1_frameLayout, p1_frames, p1_chunks, p1_stopTimeout, p1_created>>

P1Init ==
  /\ p1_viewMode = "full"
  /\ p1_recordingState = "idle"
  /\ p1_screen = FALSE
  /\ p1_screenPending = FALSE
  /\ p1_ref = FALSE
  /\ p1_mr = "none"
  /\ p1_loopMode = "none"
  /\ p1_frameLayout = "none"
  /\ p1_frames = 0
  /\ p1_oldLoops = 0
  /\ p1_chunks = 0
  /\ p1_videoUrl = FALSE
  /\ p1_error = "none"
  /\ p1_stopTimeout = FALSE
  /\ p1_stopEvent = FALSE
  /\ p1_created = 0

\* ====================== first VideoRecorder of components/VideoRecorder.tsx
VARIABLES
  v1_recordingState,  \* useState: idle | recording | paused
  v1_cameraPermission,\* useState<boolean | null>: "null" | "granted" | "denied"
  v1_ref,             \* mediaRecorderRef.current is a recorder
  v1_mr,              \* state of the recorder in mediaRecorderRef: none | recording | paused | inactive
  v1_mime,            \* mimeType the recorder in mediaRecorderRef was constructed with
  v1_loop,            \* recordingState held by the scheduled drawFrame closure, "none" when no frame is scheduled
  v1_frames,          \* parity of the number of frames drawn on the recorded canvas
  v1_oldLoops,        \* self-rescheduling draw loops left on canvases of earlier recordings
  v1_chunks,          \* chunksRef.current.length
  v1_videoUrl,        \* videoUrl is non-null
  v1_error,           \* useState<string | null>, "none" for null
  v1_stopEvent,       \* a stop event of a recorder is queued
  v1_created          \* number of canvases created by startRecording

v1Vars == <<v1_recordingState, v1_cameraPermission, v1_ref, v1_mr, v1_mime, v1_loop,
            v1_frames, v1_oldLoops, v1_chunks, v1_videoUrl, v1_error, v1_stopEvent,
            v1_created>>

\* The mimeType startRecording passes to MediaRecorder (line 185).
V1MimeType == "video/webm;codecs=vp8,opus"

\* The condition under which drawFrame schedules the next frame (line 176),
\* evaluated on the recordingState its closure holds.
KeepsDrawing(closureState) == closureState \in {"recording", "paused"}

\* initCamera() of the mount effect settles (lines 48-84).
V1_InitCamera(outcome) ==
  /\ v1_cameraPermission = "null"
  /\ v1_cameraPermission' = outcome
  /\ v1_error' = IF outcome = "granted" THEN v1_error
                 ELSE "Camera access denied. Please enable camera permissions for this site."
  /\ UNCHANGED <<v1_recordingState, v1_ref, v1_mr, v1_mime, v1_loop, v1_frames,
                 v1_oldLoops, v1_chunks, v1_videoUrl, v1_stopEvent, v1_created>>

\* startRecording() (lines 93-223): Start when idle, Resume when paused.
\* The first drawFrame is scheduled before the MediaRecorder is constructed;
\* the constructor throws NotSupportedError for a type the browser rejects.
V1_StartRecording ==
  /\ v1_cameraPermission = "granted"
  /\ v1_recordingState \in {"idle", "paused"}
  /\ v1_created < MaxRecordings
  /\ v1_created' = v1_created + 1
  /\ v1_chunks' = 0
  /\ v1_oldLoops' = v1_oldLoops + (IF KeepsDrawing(v1_loop) THEN 1 ELSE 0)
  /\ v1_loop' = v1_recordingState
  /\ IF V1MimeType \in env_supported
     THEN /\ v1_ref' = TRUE
          /\ v1_mr' = "recording"
          /\ v1_mime' = V1MimeType
          /\ v1_recordingState' = "recording"
          /\ UNCHANGED v1_error
     ELSE /\ v1_error' = "Could not start recording: NotSupportedError"
          /\ UNCHANGED <<v1_ref, v1_mr, v1_mime, v1_recordingState>>
  /\ UNCHANGED <<v1_cameraPermission, v1_frames, v1_videoUrl, v1_stopEvent>>

\* A scheduled drawFrame runs (lines 129-179): it draws, and schedules the
\* next frame when the recordingState of its closure is recording or paused.
V1_DrawFrame ==
  /\ v1_loop # "none"
  /\ v1_frames' = 1 - v1_frames
  /\ v1_loop' = IF KeepsDrawing(v1_loop) THEN v1_loop ELSE "none"
  /\ UNCHANGED <<v1_recordingState, v1_cameraPermission, v1_ref, v1_mr, v1_mime,
                 v1_oldLoops, v1_chunks, v1_videoUrl, v1_error, v1_stopEvent, v1_created>>

\* ondataavailable (lines 195-200).
V1_DataAvailable(size) ==
  /\ v1_mr = "recording"
  /\ v1_chunks < MaxChunks
  /\ size > 0
  /\ v1_chunks' = v1_chunks + 1
  /\ UNCHANGED <<v1_recordingState, v1_cameraPermission, v1_ref, v1_mr, v1_mime, v1_loop,
                 v1_frames, v1_oldLoops, v1_videoUrl, v1_error, v1_stopEvent, v1_created>>

\* pauseRecording() (lines 226-236).
V1_PauseRecording ==
  /\ v1_recordingState = "recording"
  /\ v1_ref
  /\ IF v1_mr = "inactive"
     THEN /\ v1_error' = "Could not pause recording"
          /\ UNCHANGED <<v1_mr, v1_recordingState>>
     ELSE /\ v1_mr' = "paused"
          /\ v1_recordingState' = "paused"
          /\ UNCHANGED v1_error
  /\ UNCHANGED <<v1_cameraPermission, v1_ref, v1_mime, v1_loop, v1_frames, v1_oldLoops,
                 v1_chunks, v1_videoUrl, v1_stopEvent, v1_created>>

\* cancelAnimationFrame(animFrameRef.current): cancels the callback scheduled
\* last, of the loop on the recorded canvas (cancelCurrent) or of an older one.
V1_CancelFrame(cancelCurrent) ==
  IF v1_loop # "none" /\ (cancelCurrent \/ v1_oldLoops = 0)
  THEN /\ v1_loop' = "none"
       /\ UNCHANGED v1_oldLoops
  ELSE /\ v1_oldLoops' = IF v1_oldLoops > 0 THEN v1_oldLoops - 1 ELSE 0
       /\ UNCHANGED v1_loop

\* stopRecording() (lines 239-259), offered while recording and paused.
V1_StopRecording(cancelCurrent) ==
  /\ v1_recordingState \in {"recording", "paused"}
  /\ IF ~v1_ref
     THEN /\ v1_error' = "No active recording"
          /\ UNCHANGED <<v1_mr, v1_stopEvent, v1_loop, v1_oldLoops, v1_recordingState>>
     ELSE IF v1_mr = "inactive"
     THEN /\ v1_error' = "Error finalizing video: InvalidStateError"
          /\ UNCHANGED <<v1_mr, v1_stopEvent, v1_loop, v1_oldLoops, v1_recordingState>>
     ELSE /\ v1_mr' = "inactive"
          /\ v1_stopEvent' = TRUE
          /\ V1_CancelFrame(cancelCurrent)
          /\ v1_recordingState' = "idle"
          /\ UNCHANGED v1_error
  /\ UNCHANGED <<v1_cameraPermission, v1_ref, v1_mime, v1_frames, v1_chunks, v1_videoUrl,
                 v1_created>>

\* onstop (lines 202-213).
V1_OnStop(cancelCurrent) ==
  /\ v1_stopEvent
  /\ v1_stopEvent' = FALSE
  /\ V1_CancelFrame(cancelCurrent)
  /\ v1_videoUrl' = TRUE
  /\ UNCHANGED <<v1_recordingState, v1_cameraPermission, v1_ref, v1_mr, v1_mime,
                 v1_frames, v1_chunks, v1_error, v1_created>>

V1Init ==
  /\ v1_recordingState = "idle"
  /\ v1_cameraPermission = "null"
  /\ v1_ref = FALSE
  /\ v1_mr = "none"
  /\ v1_mime = "none"
  /\ v1_loop = "none"
  /\ v1_frames = 0
  /\ v1_oldLoops = 0
  /\ v1_chunks = 0
  /\ v1_videoUrl = FALSE
  /\ v1_error = "none"
  /\ v1_stopEvent = FALSE
  /\ v1_created = 0

\* ============================================================ Teleprompter
VARIABLES
  tp_isPlaying,       \* useState<boolean> isPlaying of the mounted Teleprompter
  tp_scrollTop,       \* teleprompterRef.current.scrollTop
  tp_animation        \* animationRef.current holds a scheduled scrollStep

tpVars == <<tp_isPlaying, tp_scrollTop, tp_animation>>

\* Initial value of the scrollSpeed state (pixels per frame).
TpScrollSpeed == 2

\* State of a Teleprompter at mount; an unmounted one has no state, so the
\* variables hold these values while none is mounted.
TpFresh ==
  /\ tp_isPlaying' = FALSE
  /\ tp_scrollTop' = 0
  /\ tp_animation' = FALSE

\* startScrolling() (lines 22-36).
Tp_startScrolling ==
  /\ tp_isPlaying' = TRUE
  /\ tp_animation' = TRUE
  /\ UNCHANGED tp_scrollTop

\* scrollStep (lines 26-33); the browser clamps scrollTop at the scroll height.
Tp_scrollStep ==
  /\ tp_animation
  /\ tp_scrollTop < MaxScroll
  /\ tp_scrollTop' = IF tp_scrollTop + TpScrollSpeed > MaxScroll THEN MaxScroll
                     ELSE tp_scrollTop + TpScrollSpeed
  /\ UNCHANGED <<tp_isPlaying, tp_animation>>

\* pauseScrolling() (lines 38-44).
Tp_pauseScrolling ==
  /\ tp_isPlaying' = FALSE
  /\ tp_animation' = FALSE
  /\ UNCHANGED tp_scrollTop

\* resetScrolling() (lines 46-52).
Tp_resetScrolling ==
  /\ tp_isPlaying' = FALSE
  /\ tp_animation' = FALSE
  /\ tp_scrollTop' = 0

TpInit ==
  /\ tp_isPlaying = FALSE
  /\ tp_scrollTop = 0
  /\ tp_animation = FALSE

\* ===================== second VideoRecorder of components/VideoRecorder.tsx
VARIABLES
  v2_recordingState,  \* useState: idle | recording | paused
  v2_cameraPermission,\* useState<boolean | null>: "null" | "granted" | "denied"
  v2_mr,              \* state of the recorder built by initCamera: none | inactive | recording | paused
  v2_flush,           \* the dataavailable event of a stop() is still to be delivered
  v2_chunks,          \* chunksRef.current.length
  v2_videoUrl,        \* videoUrl is non-null
  v2_error,           \* useState<string | null>, "none" for null
  v2_timeouts,        \* pending 500 ms timeouts of stopRecording, each by the number of the recording it finalises
  v2_showTeleprompter,\* useState<boolean>
  v2_teleprompterPosition, \* useState: overlay | side | bottom
  v2_stops            \* number of recordings stopped

v2Vars == <<v2_recordingState, v2_cameraPermission, v2_mr, v2_flush, v2_chunks,
            v2_videoUrl, v2_error, v2_timeouts, v2_showTeleprompter,
            v2_teleprompterPosition, v2_stops>>

\* The render condition of the Teleprompter element (line 1021).
TeleprompterDisplayed(show, state) == show /\ state # "idle"

V2Displayed == TeleprompterDisplayed(v2_showTeleprompter, v2_recordingState)

\* React keeps the component's state while it stays rendered, and mounts a
\* fresh one or unmounts it when the render condition changes.
TpAcrossRender(show, state) ==
  IF V2Displayed /\ TeleprompterDisplayed(show, state)
  THEN UNCHANGED tpVars
  ELSE TpFresh

\* initCamera() of the mount effect settles (lines 816-851).
V2_InitCamera(outcome) ==
  /\ v2_cameraPermission = "null"
  /\ v2_cameraPermission' = outcome
  /\ IF outcome = "granted"
     THEN /\ v2_mr' = "inactive"
          /\ UNCHANGED v2_error
     ELSE /\ v2_error' = "Could not access camera: NotAllowedError"
          /\ UNCHANGED v2_mr
  /\ UNCHANGED <<v2_recordingState, v2_flush, v2_chunks, v2_videoUrl, v2_timeouts,
                 v2_showTeleprompter, v2_teleprompterPosition, v2_stops, tpVars>>

\* startRecording() (lines 868-901): Start when idle, Resume when paused.
V2_StartRecording ==
  /\ v2_cameraPermission = "granted"
  /\ v2_recordingState \in {"idle", "paused"}
  /\ v2_stops < MaxRecordings
  /\ IF v2_recordingState # "paused"
     THEN v2_chunks' = 0 /\ v2_videoUrl' = FALSE
     ELSE UNCHANGED <<v2_chunks, v2_videoUrl>>
  /\ v2_mr' = IF v2_mr \in {"inactive", "paused"} THEN "recording" ELSE v2_mr
  /\ v2_recordingState' = "recording"
  /\ TpAcrossRender(v2_showTeleprompter, "recording")
  /\ UNCHANGED <<v2_cameraPermission, v2_flush, v2_error, v2_timeouts,
                 v2_showTeleprompter, v2_teleprompterPosition, v2_stops>>

\* recorder.ondataavailable (lines 837-843): a timeslice chunk, or the chunk
\* stop() flushes; empty chunks are dropped.
V2_DataAvailable(size) ==
  /\ v2_mr = "recording" \/ v2_flush
  /\ IF v2_flush
     THEN v2_flush' = FALSE
     ELSE size > 0 /\ v2_chunks < MaxChunks /\ UNCHANGED v2_flush
  /\ v2_chunks' = IF size > 0 /\ v2_chunks < MaxChunks THEN v2_chunks + 1 ELSE v2_chunks
  /\ UNCHANGED <<v2_recordingState, v2_cameraPermission, v2_mr, v2_videoUrl, v2_error,
                 v2_timeouts, v2_showTeleprompter, v2_teleprompterPosition, v2_stops,
                 tpVars>>

\* pauseRecording() (lines 904-914).
V2_PauseRecording ==
  /\ v2_recordingState = "recording"
  /\ v2_mr # "none"
  /\ IF v2_mr = "inactive"
     THEN /\ v2_error' = "Could not pause recording"
          /\ UNCHANGED <<v2_mr, v2_recordingState>>
          /\ UNCHANGED tpVars
     ELSE /\ v2_mr' = "paused"
          /\ v2_recordingState' = "paused"
          /\ TpAcrossRender(v2_showTeleprompter, "paused")
          /\ UNCHANGED v2_error
  /\ UNCHANGED <<v2_cameraPermission, v2_flush, v2_chunks, v2_videoUrl, v2_timeouts,
                 v2_showTeleprompter, v2_teleprompterPosition, v2_stops>>

\* stopRecording() (lines 917-963).  The recording being stopped is number
\* v2_stops + 1.
V2_StopRecording ==
  /\ v2_recordingState # "idle"
  /\ v2_mr # "none"
  /\ IF v2_mr # "inactive"
     THEN /\ v2_mr' = "inactive"
          /\ v2_flush' = TRUE
          /\ v2_timeouts' = Append(v2_timeouts, v2_stops + 1)
     ELSE UNCHANGED <<v2_mr, v2_flush, v2_timeouts>>
  /\ v2_stops' = v2_stops + 1
  /\ v2_recordingState' = "idle"
  /\ TpAcrossRender(v2_showTeleprompter, "idle")
  /\ UNCHANGED <<v2_cameraPermission, v2_chunks, v2_videoUrl, v2_error,
                 v2_showTeleprompter, v2_teleprompterPosition>>

\* The timeout callback of stopRecording (lines 937-956): it reads
\* chunksRef.current as it is when the timer fires.
V2_StopTimeout ==
  /\ v2_timeouts # <<>>
  /\ v2_timeouts' = Tail(v2_timeouts)
  /\ IF v2_chunks > 0
     THEN /\ v2_videoUrl' = TRUE
          /\ UNCHANGED v2_error
     ELSE /\ v2_error' = "No video data was captured. Please try recording again."
          /\ UNCHANGED v2_videoUrl
  /\ UNCHANGED <<v2_recordingState, v2_cameraPermission, v2_mr, v2_flush, v2_chunks,
                 v2_showTeleprompter, v2_teleprompterPosition, v2_stops, tpVars>>

\* positions[(indexOf(position) + 1) % 3] of toggleTeleprompterPosition.
NextPosition(position) ==
  CASE position = "overlay" -> "side"
    [] position = "side" -> "bottom"
    [] OTHER -> "overlay"

\* toggleTeleprompterPosition() (lines 979-991).
V2_ToggleTeleprompterPosition ==
  /\ IF ~v2_showTeleprompter
     THEN /\ v2_showTeleprompter' = TRUE
          /\ UNCHANGED v2_teleprompterPosition
          /\ TpAcrossRender(TRUE, v2_recordingState)
     ELSE /\ v2_teleprompterPosition' = NextPosition(v2_teleprompterPosition)
          /\ UNCHANGED v2_showTeleprompter
          /\ UNCHANGED tpVars
  /\ UNCHANGED <<v2_recordingState, v2_cameraPermission, v2_mr, v2_flush, v2_chunks,
                 v2_videoUrl, v2_error, v2_timeouts, v2_stops>>

\* onClose of the Teleprompter (line 1025) and the Hide button (line 1084).
V2_HideTeleprompter ==
  /\ v2_showTeleprompter
  /\ v2_showTeleprompter' = FALSE
  /\ TpAcrossRender(FALSE, v2_recordingState)
  /\ UNCHANGED <<v2_recordingState, v2_cameraPermission, v2_mr, v2_flush, v2_chunks,
                 v2_videoUrl, v2_error, v2_timeouts, v2_teleprompterPosition, v2_stops>>

\* The controls of the rendered Teleprompter.
V2_TpStartScrolling ==
  /\ V2Displayed
  /\ ~tp_isPlaying
  /\ Tp_startScrolling
  /\ UNCHANGED v2Vars

V2_TpScrollStep ==
  /\ V2Displayed
  /\ Tp_scrollStep
  /\ UNCHANGED v2Vars

V2_TpPauseScrolling ==
  /\ V2Displayed
  /\ tp_isPlaying
  /\ Tp_pauseScrolling
  /\ UNCHANGED v2Vars

V2_TpResetScrolling ==
  /\ V2Displayed
  /\ tp_isPlaying \/ tp_scrollTop # 0
  /\ Tp_resetScrolling
  /\ UNCHANGED v2Vars

V2Init ==
  /\ v2_recordingState = "idle"
  /\ v2_cameraPermission = "null"
  /\ v2_mr = "none"
  /\ v2_flush = FALSE
  /\ v2_chunks = 0
  /\ v2_videoUrl = FALSE
  /\ v2_error = "none"
  /\ v2_timeouts = <<>>
  /\ v2_showTeleprompter = FALSE
  /\ v2_teleprompterPosition = "overlay"
  /\ v2_stops = 0

\* ============================================== downloadVideo (utility)
VARIABLES
  dl_videoUrl,        \* the caller's videoUrl state is non-null
  dl_chunks,          \* recordedChunks.length of the caller
  dl_call             \* what the last downloadVideo() call received and did

dlVars == <<dl_videoUrl, dl_chunks, dl_call>>

\* Values new Date().toISOString() may return.
IsoTimestamps == {"2025-01-01T00:00:00.000Z", "2025-06-30T23:59:59.999Z"}

\* Where an exception may be raised inside the try block: nowhere, in
\* getMimeType() / new Blob / createObjectURL before a.click(), or in the
\* clean-up after it.
ThrowPoints == {"none", "beforeClick", "afterClick"}

NoCall ==
  [called |-> FALSE, videoUrl |-> FALSE, chunks |-> 0, throws |-> "none",
   clicked |-> FALSE, filename |-> "none", status |-> <<>>, error |-> <<>>]

\* A guard that looks at videoUrl only.
HasVideoData_urlOnly(videoUrl, chunks) == videoUrl

\* The condition tested by the guard of line 32, negated.
HasVideoData(videoUrl, chunks) == videoUrl /\ chunks # 0

\* a.download (line 47).
DownloadName(iso) == "recording_" \o iso \o ".webm"

\* downloadVideo(videoUrl, recordedChunks, getMimeType, setStatus, setError)
\* (lines 24-60): the record of one call, with the arguments setStatus and
\* setError were called with, in order.
downloadVideo(videoUrl, chunks, throws, iso) ==
  LET in == [NoCall EXCEPT !.called = TRUE, !.videoUrl = videoUrl, !.chunks = chunks,
                           !.throws = throws]
  IN  IF ~HasVideoData(videoUrl, chunks)
      THEN [in EXCEPT !.error = <<"No video data available to download">>]
      ELSE IF throws = "beforeClick"
      THEN [in EXCEPT !.status = <<"Preparing video for download...">>,
                      !.error = <<"Error downloading video: getMimeType failed">>]
      ELSE IF throws = "afterClick"
      THEN [in EXCEPT !.status = <<"Preparing video for download...">>,
                      !.clicked = TRUE,
                      !.filename = DownloadName(iso),
                      !.error = <<"Error downloading video: clean-up failed">>]
      ELSE [in EXCEPT !.status = <<"Preparing video for download...",
                                   "Video downloaded successfully!">>,
                      !.clicked = TRUE,
                      !.filename = DownloadName(iso)]

\* The component's Download button calls the utility with its current state.
Dl_DownloadVideo(throws, iso) ==
  /\ dl_call' = downloadVideo(dl_videoUrl, dl_chunks, throws, iso)
  /\ UNCHANGED <<dl_videoUrl, dl_chunks>>

\* The caller's state changes between calls: a recording is published or
\* reset, chunks arrive or are cleared.
Dl_SetVideoUrl(present) ==
  /\ dl_videoUrl # present
  /\ dl_videoUrl' = present
  /\ UNCHANGED <<dl_chunks, dl_call>>

Dl_SetRecordedChunks(n) ==
  /\ dl_chunks # n
  /\ dl_chunks' = n
  /\ UNCHANGED <<dl_videoUrl, dl_call>>

DlInit ==
  /\ dl_videoUrl = FALSE
  /\ dl_chunks = 0
  /\ dl_call = NoCall

\* ==================================================== ScriptForm (submit)
VARIABLES
  sf_formData,        \* useState<ScriptFormData>: topicTitle, seoKeyword, creatorInfo
  sf_generated,       \* generatedScript, youtubeDescription, youtubeTags (displayed)
  sf_editable,        \* editableScript, editableDescription, editableTags
  sf_isLoading,       \* useState<boolean>
  sf_error,           \* useState<string>
  sf_pc,              \* where handleSubmit is suspended: none | awaitFetch
  sf_timeoutArmed,    \* the 10 s notice timeout is pending
  sf_requests,        \* number of requests sent
  sf_lastRequest,     \* the request sent last
  sf_lastResponse,    \* the response handled last
  sf_submits          \* parity of the number of handleSubmit() calls

sfVars == <<sf_formData, sf_generated, sf_editable, sf_isLoading, sf_error, sf_pc,
            sf_timeoutArmed, sf_requests, sf_lastRequest, sf_lastResponse, sf_submits>>

\* Strings typed into the form are sequences of characters.
Whitespace == {" ", "\t", "\n"}

FieldValues == { <<>>, <<" ">>, <<"a">>, <<" ", "b", " ">> }

CreatorValues == { <<>>, <<"c">> }

RECURSIVE TrimStart(_)
TrimStart(s) ==
  IF s # <<>> /\ Head(s) \in Whitespace THEN TrimStart(Tail(s)) ELSE s

RECURSIVE TrimEnd(_)
TrimEnd(s) ==
  IF s # <<>> /\ s[Len(s)] \in Whitespace THEN TrimEnd(SubSeq(s, 1, Len(s) - 1)) ELSE s

\* String.prototype.trim().
Trim(s) == TrimEnd(TrimStart(s))

\* A validation that tests the raw value.
IsBlank_untrimmed(s) == s = <<>>

\* !value.trim() of the validation (line 258).
IsBlank(s) == Trim(s) = <<>>

NoContent == [script |-> "", description |-> "", tags |-> ""]

\* Bodies of 200 responses of the content service.
ContentValues ==
  { [script |-> "script-1", description |-> "description-1", tags |-> "tags-1"],
    [script |-> "script-2", description |-> "description-2", tags |-> "tags-2"] }

\* What the fetch may settle with: a 200 with content, an error status with
\* an error body, a network failure.
Responses ==
  {[kind |-> "ok", data |-> d] : d \in ContentValues}
    \cup {[kind |-> "status", data |-> NoContent], [kind |-> "network", data |-> NoContent]}

NoRequest ==
  [method |-> "none", url |-> "none",
   body |-> [topicTitle |-> <<>>, seoKeyword |-> <<>>, creatorInfo |-> <<>>]]

NoResponse == [kind |-> "none", data |-> NoContent]

\* handleInputChange (lines 95-101).
Sf_handleInputChange(name, value) ==
  /\ sf_formData[name] # value
  /\ sf_formData' = [sf_formData EXCEPT ![name] = value]
  /\ UNCHANGED <<sf_generated, sf_editable, sf_isLoading, sf_error, sf_pc,
                 sf_timeoutArmed, sf_requests, sf_lastRequest, sf_lastResponse,
                 sf_submits>>

\* handleScriptEdit / handleDescriptionEdit / handleTagsEdit (lines 103-113).
Sf_handleEdit(field, value) ==
  /\ sf_editable[field] # value
  /\ sf_editable' = [sf_editable EXCEPT ![field] = value]
  /\ UNCHANGED <<sf_formData, sf_generated, sf_isLoading, sf_error, sf_pc,
                 sf_timeoutArmed, sf_requests, sf_lastRequest, sf_lastResponse,
                 sf_submits>>

\* handleSubmit (lines 254-274), to the await of fetch.  The submit button is
\* disabled while isLoading.
Sf_handleSubmit ==
  /\ ~sf_isLoading
  /\ sf_submits' = 1 - sf_submits
  /\ IF IsBlank(sf_formData.topicTitle) \/ IsBlank(sf_formData.seoKeyword)
     THEN /\ sf_error' = "Please fill in both the topic title and SEO keyword"
          /\ UNCHANGED <<sf_isLoading, sf_pc, sf_timeoutArmed, sf_requests, sf_lastRequest>>
     ELSE /\ sf_requests < MaxRequests
          /\ sf_isLoading' = TRUE
          /\ sf_error' = ""
          /\ sf_timeoutArmed' = TRUE
          /\ sf_requests' = sf_requests + 1
          /\ sf_lastRequest' = [method |-> "POST", url |-> "/generate-content",
                                body |-> sf_formData]
          /\ sf_pc' = "awaitFetch"
  /\ UNCHANGED <<sf_formData, sf_generated, sf_editable, sf_lastResponse>>

\* The 10 s timeout fires while the request is outstanding (lines 268-270).
Sf_NoticeTimeout ==
  /\ sf_timeoutArmed
  /\ sf_timeoutArmed' = FALSE
  /\ sf_error' = "This is taking longer than expected. Please wait while we generate your script..."
  /\ UNCHANGED <<sf_formData, sf_generated, sf_editable, sf_isLoading, sf_pc,
                 sf_requests, sf_lastRequest, sf_lastResponse, sf_submits>>

\* The fetch settles and the rest of handleSubmit runs (lines 280-300).
Sf_FetchSettles(response) ==
  /\ sf_pc = "awaitFetch"
  /\ sf_pc' = "none"
  /\ sf_lastResponse' = response
  /\ sf_timeoutArmed' = IF response.kind = "network" THEN sf_timeoutArmed ELSE FALSE
  /\ IF response.kind = "ok"
     THEN /\ sf_generated' = response.data
          /\ sf_editable' = response.data
          /\ UNCHANGED sf_error
     ELSE /\ sf_error' = IF response.kind = "status" THEN "Server error: 500"
                         ELSE "Failed to fetch"
          /\ UNCHANGED <<sf_generated, sf_editable>>
  /\ sf_isLoading' = FALSE
  /\ UNCHANGED <<sf_formData, sf_requests, sf_lastRequest, sf_submits>>

SfInit ==
  /\ sf_formData = [topicTitle |-> <<>>, seoKeyword |-> <<>>, creatorInfo |-> <<>>]
  /\ sf_generated = NoContent
  /\ sf_editable = NoContent
  /\ sf_isLoading = FALSE
  /\ sf_error = ""
  /\ sf_pc = "none"
  /\ sf_timeoutArmed = FALSE
  /\ sf_requests = 0
  /\ sf_lastRequest = NoRequest
  /\ sf_lastResponse = NoResponse
  /\ sf_submits = 0

\* ============================ VideoRecorder of part_004 (hook-based UI)
\* The component wires the useRecording hook to RecordingControls and
\* schedules cleanupAudioResources when a recording has completed.
VARIABLES
  u_cleanupTimers,    \* pending setTimeout(cleanupAudioResources, 1000) timers
  u_audioStoppedId,   \* id of the service whose audio tracks cleanupAudioResources stopped, 0 if none
  u_resumePresses     \* parity of the number of presses of 'Resume Recording'

uiVars == <<u_cleanupTimers, u_audioStoppedId, u_resumePresses>>

\* RecordingControls: which button is rendered in which state.
StartButtonShown(state, videoUrl) == state = "idle" /\ videoUrl = 0

ResumeButtonShown(state) == state = "paused"

PauseStopButtonsShown(state) == state = "recording"

NewRecordingButtonShown(state, videoUrl) == videoUrl # 0 /\ state = "idle"

\* 'Start Recording': onClick = onStartRecording = startRecording.
Ui_StartButton(ctorOk) ==
  /\ StartButtonShown(h_recordingState, h_videoUrl)
  /\ H_StartRecording(ctorOk)
  /\ UNCHANGED uiVars

\* 'Resume Recording': onClick = onStartRecording = startRecording.
Ui_ResumeButton(ctorOk) ==
  /\ ResumeButtonShown(h_recordingState)
  /\ H_StartRecording(ctorOk)
  /\ u_resumePresses' = 1 - u_resumePresses
  /\ UNCHANGED <<u_cleanupTimers, u_audioStoppedId>>

\* 'New Recording': onClick = onStartRecording = startRecording.
Ui_NewRecordingButton(ctorOk) ==
  /\ NewRecordingButtonShown(h_recordingState, h_videoUrl)
  /\ H_StartRecording(ctorOk)
  /\ UNCHANGED uiVars

\* 'Pause': onClick = onPauseRecording, which is the hook's pauseRecording
\* in the only state where the button is rendered.
Ui_PauseButton ==
  /\ PauseStopButtonsShown(h_recordingState)
  /\ H_PauseRecording
  /\ UNCHANGED uiVars

\* 'Stop': onClick = onStopRecording = stopRecording.
Ui_StopButton ==
  /\ PauseStopButtonsShown(h_recordingState)
  /\ H_StopRecording
  /\ UNCHANGED uiVars

Ui_StartMicSettles(outcome, ctorOk) ==
  /\ H_StartMicSettles(outcome, ctorOk)
  /\ UNCHANGED uiVars

Ui_StartInitSettles ==
  /\ H_StartInitSettles
  /\ UNCHANGED uiVars

\* handleRecordingComplete (lines 167-174), called by the effect of lines
\* 177-181 after a render with recordingState === 'idle' && videoUrl.
handleRecordingComplete(timers) == timers + 1

\* The stop promise settles; when the hook publishes videoUrl and 'idle' the
\* effect keyed on [recordingState, videoUrl] runs handleRecordingComplete.
Ui_StopSettles(outcome) ==
  /\ H_StopSettles(outcome)
  /\ u_cleanupTimers' = IF h_recordingState' = "idle" /\ h_videoUrl' # 0
                        THEN handleRecordingComplete(u_cleanupTimers)
                        ELSE u_cleanupTimers
  /\ UNCHANGED <<u_audioStoppedId, u_resumePresses>>

Ui_TimerTick ==
  /\ H_TimerTick
  /\ UNCHANGED uiVars

Ui_VideoUrlEffectCleanup ==
  /\ H_VideoUrlEffectCleanup
  /\ UNCHANGED uiVars

\* CanvasRecorder hands its capture stream to handleCanvasStreamReady
\* (lines 40-43) and the component renders again with it.
Ui_CanvasStreamReady ==
  /\ H_CanvasStreamProp(TRUE)
  /\ UNCHANGED uiVars

\* cleanupAudioResources (part_009:221-243) run by a timer of line 172:
\* stops every track of window._directAudioStream and clears the global.
\* window._mediaRecorderInstance is never set on this path (only
\* RecordRTCService.startRecording sets it, which the hook does not call).
cleanupAudioResources(direct) == NoStream

Ui_CleanupAudioTimer ==
  /\ u_cleanupTimers > 0
  /\ u_cleanupTimers' = u_cleanupTimers - 1
  /\ w_directAudio' = cleanupAudioResources(w_directAudio)
  /\ u_audioStoppedId' = IF w_directAudio.present /\ svc.audioStream.present
                         THEN svc.id
                         ELSE u_audioStoppedId
  /\ UNCHANGED <<svc, s_pc, s_emergency, s_arg, hookVars, u_resumePresses>>

UiInit ==
  /\ u_cleanupTimers = 0
  /\ u_audioStoppedId = 0
  /\ u_resumePresses = 0

\* ======================================= CanvasRecorder (components/)
VARIABLES
  c_isRecording,      \* prop isRecording
  c_viewMode,         \* prop viewMode
  c_recordingDuration,\* prop recordingDuration
  c_lastViewMode,     \* lastViewModeRef.current
  c_transition,       \* transitionMessage is set
  c_timeouts,         \* pending 300 ms timeouts, each by the isRecording its closure captured
  c_stream,           \* streamRef.current: number of the capture stream, 0 for null
  c_ready             \* number of the stream last passed to onCanvasStreamReady

crVars == <<c_isRecording, c_viewMode, c_recordingDuration, c_lastViewMode,
            c_transition, c_timeouts, c_stream, c_ready>>

\* initializeCanvasStream (lines 31-79): stops the tracks of the existing
\* stream, captures a new one and hands it to onCanvasStreamReady.  It also
\* stands for the cleanup-and-rerun of the mount effect (lines 385-400),
\* whose cleanup stops the tracks before the effect initializes again.
initializeCanvasStream(stream) == stream + 1

\* Dependencies of the mount effect (line 400): drawToCanvas changes with
\* viewMode, isRecording, recordingDuration and transitionMessage (line 382),
\* initializeCanvasStream with onCanvasStreamReady (line 79), which the parent
\* (part_004:40) creates anew in every render.
MountEffectReruns(parentRendered, old, new) ==
  parentRendered \/ old # new

\* The parent renders with new props.  The mount effect runs again; the
\* view-mode effect (lines 403-448) sets the transition message and schedules
\* its timeout when viewMode differs from lastViewModeRef, and the render that
\* setTransitionMessage causes runs the mount effect once more.
Cr_ParentRender(isRecording, viewMode, recordingDuration) ==
  LET changed == viewMode # c_lastViewMode
      s1 == IF MountEffectReruns(TRUE, <<c_viewMode, c_isRecording, c_recordingDuration>>,
                                 <<viewMode, isRecording, recordingDuration>>)
            THEN initializeCanvasStream(c_stream) ELSE c_stream
      s2 == IF changed /\ MountEffectReruns(FALSE, c_transition, TRUE)
            THEN initializeCanvasStream(s1) ELSE s1
  IN  /\ recordingDuration \in {c_recordingDuration, c_recordingDuration + 1, 0}
      /\ s2 <= MaxStreams
      /\ c_isRecording' = isRecording
      /\ c_viewMode' = viewMode
      /\ c_recordingDuration' = recordingDuration
      /\ c_lastViewMode' = viewMode
      /\ c_transition' = (c_transition \/ changed)
      /\ c_timeouts' = IF changed THEN c_timeouts \cup {isRecording} ELSE c_timeouts
      /\ c_stream' = s2
      /\ c_ready' = s2

\* The timeout of lines 435-446 fires: the transition message is cleared and,
\* when the isRecording captured by the closure is false, the stream is
\* initialized again; the render caused by clearing the message reruns the
\* mount effect.
Cr_Timeout(capturedIsRecording) ==
  LET s1 == IF ~capturedIsRecording THEN initializeCanvasStream(c_stream) ELSE c_stream
      s2 == IF MountEffectReruns(FALSE, c_transition, FALSE)
            THEN initializeCanvasStream(s1) ELSE s1
  IN  /\ capturedIsRecording \in c_timeouts
      /\ s2 <= MaxStreams
      /\ c_timeouts' = c_timeouts \ {capturedIsRecording}
      /\ c_transition' = FALSE
      /\ c_stream' = s2
      /\ c_ready' = s2
      /\ UNCHANGED <<c_isRecording, c_viewMode, c_recordingDuration, c_lastViewMode>>

\* After mount: the effect of line 385 has initialized the first stream.
CrInit ==
  /\ c_isRecording = FALSE
  /\ c_viewMode = "full"
  /\ c_recordingDuration = 0
  /\ c_lastViewMode = "full"
  /\ c_transition = FALSE
  /\ c_timeouts = {}
  /\ c_stream = initializeCanvasStream(0)
  /\ c_ready = initializeCanvasStream(0)

\* ================= useMediaStreams (part_014) and changeViewMode (part_004)
VARIABLES
  m_hook,             \* useMediaStreams: the stream states, isInitializing, calls in progress
  m_viewMode,         \* useState<ViewMode> of the component
  m_recordingState,   \* recordingState the component renders with
  m_timers            \* pending setTimeout(initStreams, 50), each by the closure it captured

msVars == <<m_hook, m_viewMode, m_recordingState, m_timers>>

\* What a function created in a render sees: the state of that render.
Closure(mode) ==
  [mode |-> mode, webcam |-> m_hook.webcam, screen |-> m_hook.screen,
   init |-> m_hook.init, active |-> m_recordingState \in {"recording", "paused"}]

\* No element of the component tree receives webcamVideoRef, screenVideoRef
\* or circleWebcamRef (CanvasRecorder renders a canvas only), so .current
\* stays null.
VideoRefsAttached == FALSE

\* initializeWebcam / initializeScreenCapture up to the await of the device
\* promise, called from the render of closure cl: the guard reads the
\* isInitializing of that render and the stream released is that render's.
\* follow: initStreams goes on to the webcam once this call has settled.
initialize(kind, cl, follow, h) ==
  IF cl.init
  THEN h
  ELSE [h EXCEPT !.init = TRUE,
                 !.ended = IF cl[kind] # 0 THEN @ \cup {cl[kind]} ELSE @,
                 !.calls = @ + 1,
                 !.inits = @ \cup {[n |-> h.calls + 1, kind |-> kind, cl |-> cl,
                                    follow |-> follow]}]

\* The webcam half of initStreams (part_004:150-153).
initWebcamPart(cl, h) ==
  IF cl.webcam = 0 \/ ~VideoRefsAttached
  THEN initialize("webcam", cl, FALSE, h)
  ELSE h

\* initStreams (part_004:140-160).
initStreams(cl, h) ==
  IF cl.mode \in {"tutorial", "split"} /\ (cl.screen = 0 \/ ~VideoRefsAttached) /\ ~cl.init
  THEN initialize("screen", cl, TRUE, h)
  ELSE initWebcamPart(cl, h)

\* cleanupStreams (part_014:143-153).
cleanupStreams(h) ==
  [h EXCEPT !.ended = @ \cup ({h.webcam, h.screen} \ {0}),
            !.webcam = 0,
            !.screen = 0]

\* changeViewMode (part_004:100-164).
Ms_ChangeViewMode(newMode) ==
  /\ newMode # m_viewMode
  /\ Cardinality(m_timers) < MaxTimers
  /\ m_viewMode' = newMode
  /\ m_hook' = IF m_recordingState \in {"recording", "paused"}
               THEN m_hook
               ELSE cleanupStreams(m_hook)
  /\ m_timers' = m_timers \cup {Closure(newMode)}
  /\ UNCHANGED m_recordingState

\* A 50 ms timer fires and runs initStreams.
Ms_InitStreamsTimer(cl) ==
  /\ cl \in m_timers
  /\ m_hook.calls < MaxInits
  /\ m_timers' = m_timers \ {cl}
  /\ m_hook' = initStreams(cl, m_hook)
  /\ UNCHANGED <<m_viewMode, m_recordingState>>

\* getUserMedia / getDisplayMedia of call i settles: on success the stream
\* is stored; finally isInitializing is cleared; initStreams then continues
\* with the webcam (part_014:57-85, 116-139).
Ms_InitSettles(i, ok) ==
  /\ i \in m_hook.inits
  /\ LET h1 == [m_hook EXCEPT !.inits = @ \ {i},
                              !.init = FALSE,
                              !.count = IF ok THEN @ + 1 ELSE @,
                              ![i.kind] = IF ok THEN m_hook.count + 1 ELSE @]
     IN  m_hook' = IF i.follow THEN initWebcamPart(i.cl, h1) ELSE h1
  /\ UNCHANGED <<m_viewMode, m_recordingState, m_timers>>

\* The recording hook moves between its states.
Ms_RecordingState(s) ==
  /\ s # m_recordingState
  /\ m_recordingState' = s
  /\ UNCHANGED <<m_hook, m_viewMode, m_timers>>

\* After the mount effect of useMediaStreams (part_014:156-165):
\* initializeWebcam() and, for initialViewMode 'split',
\* initializeScreenCapture(), both called from the first render.
MountEffect(initialViewMode) ==
  LET h0  == [webcam |-> 0, screen |-> 0, init |-> FALSE, ended |-> {}, count |-> 0,
              calls |-> 0, inits |-> {}]
      cl0 == [mode |-> initialViewMode, webcam |-> 0, screen |-> 0, init |-> FALSE,
              active |-> FALSE]
      h1  == initialize("webcam", cl0, FALSE, h0)
  IN  IF initialViewMode = "split" THEN initialize("screen", cl0, FALSE, h1) ELSE h1

\* The component mounts with viewMode 'full' (part_004:17, 37).
MsInit ==
  /\ m_viewMode = "full"
  /\ m_hook = MountEffect(m_viewMode)
  /\ m_recordingState = "idle"
  /\ m_timers = {}

\* ======================= videoTrackProcessor.pulseTrack, syncViewModeChange
\* (components/video-recorder/utils/video-track-processor.ts, view-mode-sync.ts)
VARIABLES
  vt_now,       \* current time in ms
  vt_enabled,   \* enabled flag of the first video track of the stream
  vt_initial,   \* the flag before the first call
  vt_timers,    \* pending setTimeout callbacks, in the order they were scheduled
  vt_calls      \* number of calls made so far

vtVars == <<vt_now, vt_enabled, vt_initial, vt_timers, vt_calls>>

\* delays of syncViewModeChange (view-mode-sync.ts:16)
Delays == <<10, 50, 100, 200, 400, 800>>

\* delay of the re-enable timeout of pulseTrack (video-track-processor.ts:44)
PulseDelay == 20

\* Time that passes between one event and the next call.
CallGaps == {0, 5, 25}

\* setTimeout(callback, delay) at time now
setTimeout(timers, now, delay, callback) ==
  Append(timers, [due |-> now + delay, kind |-> callback.kind, orig |-> callback.orig])

\* pulseTrack (lines 11-45): a null stream returns; otherwise the flag is read
\* (line 26), the track is disabled (line 34), and a timeout is scheduled that
\* writes the value read back (lines 37-44).
pulseTrack(stream, now, enabled, timers) ==
  IF stream = "null"
  THEN [enabled |-> enabled, timers |-> timers]
  ELSE LET originalEnabled == enabled
       IN  [enabled |-> FALSE,
            timers  |-> setTimeout(timers, now, PulseDelay,
                                   [kind |-> "restore", orig |-> originalEnabled])]

RECURSIVE scheduleDelays(_, _, _)
\* delays.forEach(delay => setTimeout(() => pulseTrack(stream), delay)) (lines 18-24)
scheduleDelays(timers, now, i) ==
  IF i > Len(Delays) THEN timers
  ELSE scheduleDelays(setTimeout(timers, now, Delays[i], [kind |-> "pulse", orig |-> FALSE]),
                      now, i + 1)

\* syncViewModeChange (lines 7-33)
syncViewModeChange(stream, now, timers) ==
  IF stream = "null" THEN timers ELSE scheduleDelays(timers, now, 1)

\* A call can be made at time t when no pending timer was due before t.
CanCallAt(t) == \A i \in 1..Len(vt_timers) : vt_timers[i].due >= t

\* videoTrackProcessor.pulseTrack(stream) called gap ms after the last event
Vt_PulseTrack(stream, gap) ==
  LET t == vt_now + gap
      r == pulseTrack(stream, t, vt_enabled, vt_timers)
  IN  /\ vt_calls < MaxCalls
      /\ CanCallAt(t)
      /\ vt_now' = t
      /\ vt_enabled' = r.enabled
      /\ vt_timers' = r.timers
      /\ vt_calls' = vt_calls + 1
      /\ UNCHANGED vt_initial

\* syncViewModeChange(newMode, stream) called gap ms after the last event
Vt_SyncViewModeChange(stream, gap) ==
  LET t == vt_now + gap
  IN  /\ vt_calls < MaxCalls
      /\ CanCallAt(t)
      /\ vt_now' = t
      /\ vt_timers' = syncViewModeChange(stream, t, vt_timers)
      /\ vt_calls' = vt_calls + 1
      /\ UNCHANGED <<vt_enabled, vt_initial>>

\* The timer that is due first fires; among timers due at the same time the
\* one scheduled first.
NextTimer ==
  CHOOSE i \in 1..Len(vt_timers) :
    \A j \in 1..Len(vt_timers) :
      \/ vt_timers[i].due < vt_timers[j].due
      \/ (vt_timers[i].due = vt_timers[j].due /\ i <= j)

Without(timers, i) == SubSeq(timers, 1, i - 1) \o SubSeq(timers, i + 1, Len(timers))

\* A timeout fires: the callback of syncViewModeChange (lines 19-23) pulses
\* the track, the callback of pulseTrack (lines 37-44) writes originalEnabled.
Vt_TimerFires ==
  /\ vt_timers # <<>>
  /\ LET i == NextTimer
         cb == vt_timers[i]
         t == IF cb.due > vt_now THEN cb.due ELSE vt_now
         rest == Without(vt_timers, i)
         r == IF cb.kind = "pulse"
              THEN pulseTrack("camera", t, vt_enabled, rest)
              ELSE [enabled |-> cb.orig, timers |-> rest]
     IN  /\ vt_now' = t
         /\ vt_enabled' = r.enabled
         /\ vt_timers' = r.timers
  /\ UNCHANGED <<vt_initial, vt_calls>>

\* A stream whose first video track is enabled or disabled, no call made yet.
VtInit ==
  /\ vt_now = 0
  /\ vt_enabled \in BOOLEAN
  /\ vt_initial = vt_enabled
  /\ vt_timers = <<>>
  /\ vt_calls = 0

\* The same with the track enabled, as a camera delivers it.
VtIdle == VtInit /\ vt_enabled = TRUE

\* ============ AudioMonitor (components/video-recorder/utils/audio-monitor.ts)
VARIABLES
  am,           \* fields of the singleton: isMonitoring, audioContext, analyser,
                \* dataArray, source, audioTrack (0 stands for null)
  a_created,    \* number of AudioContexts created so far
  a_closed,     \* AudioContexts that were closed
  a_loops,      \* pending checkAudioLevels timeouts, each by the context of the
                \* startMonitoring call that began its loop
  a_polls       \* number of getByteFrequencyData polls made so far

amVars == <<am, a_created, a_closed, a_loops, a_polls>>

\* field initializers (lines 6-11)
NoMonitor ==
  [isMonitoring |-> FALSE, audioContext |-> 0, analyser |-> 0,
   dataArray |-> FALSE, source |-> 0, audioTrack |-> 0]

\* stopMonitoring (lines 63-89): the fields of the monitor after the call
stopMonitoring(m) == NoMonitor

\* contexts closed by stopMonitoring (lines 75-81)
closeContext(m, closed) ==
  IF m.audioContext # 0 THEN closed \cup {m.audioContext} ELSE closed

\* checkAudioLevels (lines 94-116) decides whether the loop goes on: it
\* returns when not monitoring or without analyser or data array (line 95),
\* a throwing getByteFrequencyData clears isMonitoring (lines 112-115),
\* otherwise it schedules itself after 500 ms (line 111).
Polls(m) == m.isMonitoring /\ m.analyser # 0 /\ m.dataArray

checkAudioLevels(m, ok) ==
  IF ~Polls(m) THEN m
  ELSE IF ok THEN m ELSE [m EXCEPT !.isMonitoring = FALSE]

Reschedules(m, ok) == Polls(m) /\ ok

\* startMonitoring (lines 26-58).  stream is the number of the audio track of
\* the stream, 0 for a null stream or one without audio tracks; ctxOk is
\* whether the try block reaches line 51, pollOk whether getByteFrequencyData
\* returns.
Am_StartMonitoring(stream, ctxOk, pollOk) ==
  LET m0 == stopMonitoring(am)
      id == a_created + 1
      m1 == IF stream = 0 THEN m0
            ELSE IF ~ctxOk THEN [m0 EXCEPT !.audioTrack = stream]
            ELSE [isMonitoring |-> TRUE, audioContext |-> id, analyser |-> id,
                  dataArray |-> TRUE, source |-> id, audioTrack |-> stream]
      started == stream # 0 /\ ctxOk
  IN  /\ started => (a_created < MaxContexts /\ a_polls < MaxPolls)
      /\ am' = IF started THEN checkAudioLevels(m1, pollOk) ELSE m1
      /\ a_created' = IF started THEN id ELSE a_created
      /\ a_closed' = closeContext(am, a_closed)
      /\ a_loops' = IF started /\ Reschedules(m1, pollOk)
                    THEN a_loops \cup {id} ELSE a_loops
      /\ a_polls' = IF started THEN a_polls + 1 ELSE a_polls

\* stopMonitoring called from outside (part_004:221)
Am_StopMonitoring ==
  /\ am' = stopMonitoring(am)
  /\ a_closed' = closeContext(am, a_closed)
  /\ UNCHANGED <<a_created, a_loops, a_polls>>

\* A 500 ms timeout fires and runs checkAudioLevels on the current fields.
Am_CheckTimer(loop, ok) ==
  /\ loop \in a_loops
  /\ Polls(am) => a_polls < MaxPolls
  /\ am' = checkAudioLevels(am, ok)
  /\ a_loops' = IF Reschedules(am, ok) THEN a_loops ELSE a_loops \ {loop}
  /\ a_polls' = IF Polls(am) THEN a_polls + 1 ELSE a_polls
  /\ UNCHANGED <<a_created, a_closed>>

AmInit ==
  /\ am = NoMonitor
  /\ a_created = 0
  /\ a_closed = {}
  /\ a_loops = {}
  /\ a_polls = 0

\* ========================================================= specifications
vars == <<svcVars, hookVars, envVars, p0Vars, p1Vars, v1Vars, tpVars, v2Vars, dlVars, sfVars, uiVars, crVars, msVars, vtVars, amVars>>

\* No RecordRTCService in use.
SvcIdle ==
  /\ SvcInit
  /\ w_directAudio = NoStream

\* The useRecording hook at mount.
HookMount ==
  /\ HookInitVars
  /\ h_canvasStream \in BOOLEAN

\* ------------------------------------------------------------ SvcSpec
SvcFrame == <<hookVars, p0Vars, p1Vars, v1Vars, tpVars, v2Vars, dlVars, sfVars, uiVars, crVars, msVars, vtVars, amVars>>

SvcSpecInit ==
  /\ SvcInit
  /\ HookIdle
  /\ EnvInit
  /\ P0Init
  /\ P1Init
  /\ V1Init
  /\ TpInit
  /\ V2Init
  /\ DlInit
  /\ SfInit
  /\ UiInit
  /\ CrInit
  /\ MsInit
  /\ VtIdle
  /\ AmInit

SvcNext ==
  \/ \E a \in AudioArgs, ok \in BOOLEAN : Svc_Initialize(a, ok) /\ UNCHANGED envVars /\ UNCHANGED SvcFrame
  \/ \E o \in MicOutcomes, ok \in BOOLEAN : Svc_InitMicSettles(o, ok) /\ UNCHANGED envVars /\ UNCHANGED SvcFrame
  \/ \E o \in MicOutcomes : Svc_EmergencySettles(o) /\ UNCHANGED envVars /\ UNCHANGED SvcFrame
  \/ Svc_StartRecording /\ UNCHANGED envVars /\ UNCHANGED SvcFrame
  \/ \E st \in {NoStream, AudioStream(1)} : Env_SetDirectAudio(st) /\ UNCHANGED envVars /\ UNCHANGED SvcFrame

SvcSpec == SvcSpecInit /\ [][SvcNext]_vars

\* ------------------------------------------------------------ HookSpec
HookFrame == <<envVars, p0Vars, p1Vars, v1Vars, tpVars, v2Vars, dlVars, sfVars, uiVars, crVars, msVars, vtVars, amVars>>

HookSpecInit ==
  /\ SvcInit
  /\ HookMount
  /\ EnvFixed
  /\ P0Init
  /\ P1Init
  /\ V1Init
  /\ TpInit
  /\ V2Init
  /\ DlInit
  /\ SfInit
  /\ UiInit
  /\ CrInit
  /\ MsInit
  /\ VtIdle
  /\ AmInit

HookNext ==
  \/ \E ok \in BOOLEAN : H_StartRecording(ok) /\ UNCHANGED HookFrame
  \/ \E o \in MicOutcomes, ok \in BOOLEAN : H_StartMicSettles(o, ok) /\ UNCHANGED HookFrame
  \/ H_StartInitSettles /\ UNCHANGED HookFrame
  \/ H_StopRecording /\ UNCHANGED HookFrame
  \/ \E o \in {"resolved", "rejected"} : H_StopSettles(o) /\ UNCHANGED HookFrame
  \/ H_PauseRecording /\ UNCHANGED HookFrame
  \/ H_ResumeRecording /\ UNCHANGED HookFrame
  \/ H_TimerTick /\ UNCHANGED HookFrame
  \/ H_VideoUrlEffectCleanup /\ UNCHANGED HookFrame
  \/ \E b \in BOOLEAN : H_CanvasStreamProp(b) /\ UNCHANGED HookFrame
  \/ \E st \in {NoStream, AudioStream(1)} : H_EnvDirectAudio(st) /\ UNCHANGED HookFrame

HookSpec == HookSpecInit /\ [][HookNext]_vars

\* ------------------------------------------------------------ P0Spec
P0Frame == <<svcVars, hookVars, envVars, p1Vars, v1Vars, tpVars, v2Vars, dlVars, sfVars, uiVars, crVars, msVars, vtVars, amVars>>

P0SpecInit ==
  /\ SvcIdle
  /\ HookIdle
  /\ EnvFixed
  /\ P0Init
  /\ P1Init
  /\ V1Init
  /\ TpInit
  /\ V2Init
  /\ DlInit
  /\ SfInit
  /\ UiInit
  /\ CrInit
  /\ MsInit
  /\ VtIdle
  /\ AmInit

P0Next ==
  \/ \E o \in {"granted", "denied"} : P0_InitWebcam(o) /\ UNCHANGED P0Frame
  \/ P0_StartRecording /\ UNCHANGED P0Frame
  \/ \E ok \in BOOLEAN : P0_StartResumes(ok) /\ UNCHANGED P0Frame
  \/ \E n \in ChunkSizes : P0_DataAvailable(n) /\ UNCHANGED P0Frame
  \/ P0_PauseRecording /\ UNCHANGED P0Frame
  \/ P0_StopRecording /\ UNCHANGED P0Frame
  \/ \E n \in ChunkSizes : P0_FinalData(n) /\ UNCHANGED P0Frame
  \/ P0_OnStop /\ UNCHANGED P0Frame

P0Spec == P0SpecInit /\ [][P0Next]_vars

\* ------------------------------------------------------------ P1Spec
P1Frame == <<svcVars, hookVars, envVars, p0Vars, v1Vars, tpVars, v2Vars, dlVars, sfVars, uiVars, crVars, msVars, vtVars, amVars>>

P1SpecInit ==
  /\ SvcIdle
  /\ HookIdle
  /\ EnvFixed
  /\ P0Init
  /\ P1Init
  /\ V1Init
  /\ TpInit
  /\ V2Init
  /\ DlInit
  /\ SfInit
  /\ UiInit
  /\ CrInit
  /\ MsInit
  /\ VtIdle
  /\ AmInit

P1Next ==
  \/ \E ok \in BOOLEAN : P1_StartRecording(ok) /\ UNCHANGED P1Frame
  \/ P1_DrawToCanvas /\ UNCHANGED P1Frame
  \/ \E mode \in {"full", "split"} : P1_ToggleViewMode(mode) /\ UNCHANGED P1Frame
  \/ \E granted \in BOOLEAN : P1_ScreenCaptureSettles(granted) /\ UNCHANGED P1Frame
  \/ P1_ScreenEnded /\ UNCHANGED P1Frame
  \/ \E n \in ChunkSizes : P1_DataAvailable(n) /\ UNCHANGED P1Frame
  \/ P1_PauseRecording /\ UNCHANGED P1Frame
  \/ P1_StopRecording /\ UNCHANGED P1Frame
  \/ P1_StopTimeout /\ UNCHANGED P1Frame
  \/ \E c \in BOOLEAN : P1_OnStop(c) /\ UNCHANGED P1Frame

P1Spec == P1SpecInit /\ [][P1Next]_vars

\* ------------------------------------------------------------ V1Spec
V1Frame == <<svcVars, hookVars, p0Vars, p1Vars, tpVars, v2Vars, dlVars, sfVars, uiVars, crVars, msVars, vtVars, amVars>>

V1SpecInit ==
  /\ SvcIdle
  /\ HookIdle
  /\ EnvInit
  /\ P0Init
  /\ P1Init
  /\ V1Init
  /\ TpInit
  /\ V2Init
  /\ DlInit
  /\ SfInit
  /\ UiInit
  /\ CrInit
  /\ MsInit
  /\ VtIdle
  /\ AmInit

V1Next ==
  \/ \E o \in {"granted", "denied"} : V1_InitCamera(o) /\ UNCHANGED envVars /\ UNCHANGED V1Frame
  \/ V1_StartRecording /\ UNCHANGED envVars /\ UNCHANGED V1Frame
  \/ V1_DrawFrame /\ UNCHANGED envVars /\ UNCHANGED V1Frame
  \/ \E n \in ChunkSizes : V1_DataAvailable(n) /\ UNCHANGED envVars /\ UNCHANGED V1Frame
  \/ V1_PauseRecording /\ UNCHANGED envVars /\ UNCHANGED V1Frame
  \/ \E c \in BOOLEAN : V1_StopRecording(c) /\ UNCHANGED envVars /\ UNCHANGED V1Frame
  \/ \E c \in BOOLEAN : V1_OnStop(c) /\ UNCHANGED envVars /\ UNCHANGED V1Frame

V1Spec == V1SpecInit /\ [][V1Next]_vars

\* ------------------------------------------------------------ V2Spec
V2Frame == <<svcVars, hookVars, envVars, p0Vars, p1Vars, v1Vars, dlVars, sfVars, uiVars, crVars, msVars, vtVars, amVars>>

V2SpecInit ==
  /\ SvcIdle
  /\ HookIdle
  /\ EnvFixed
  /\ P0Init
  /\ P1Init
  /\ V1Init
  /\ TpInit
  /\ V2Init
  /\ DlInit
  /\ SfInit
  /\ UiInit
  /\ CrInit
  /\ MsInit
  /\ VtIdle
  /\ AmInit

V2Next ==
  \/ \E o \in {"granted", "denied"} : V2_InitCamera(o) /\ UNCHANGED V2Frame
  \/ V2_StartRecording /\ UNCHANGED V2Frame
  \/ \E n \in ChunkSizes : V2_DataAvailable(n) /\ UNCHANGED V2Frame
  \/ V2_PauseRecording /\ UNCHANGED V2Frame
  \/ V2_StopRecording /\ UNCHANGED V2Frame
  \/ V2_StopTimeout /\ UNCHANGED V2Frame
  \/ V2_ToggleTeleprompterPosition /\ UNCHANGED V2Frame
  \/ V2_HideTeleprompter /\ UNCHANGED V2Frame
  \/ V2_TpStartScrolling /\ UNCHANGED V2Frame
  \/ V2_TpScrollStep /\ UNCHANGED V2Frame
  \/ V2_TpPauseScrolling /\ UNCHANGED V2Frame
  \/ V2_TpResetScrolling /\ UNCHANGED V2Frame

V2Spec == V2SpecInit /\ [][V2Next]_vars

\* ------------------------------------------------------------ DlSpec
DlFrame == <<svcVars, hookVars, envVars, p0Vars, p1Vars, v1Vars, tpVars, v2Vars, sfVars, uiVars, crVars, msVars, vtVars, amVars>>

DlSpecInit ==
  /\ SvcIdle
  /\ HookIdle
  /\ EnvFixed
  /\ P0Init
  /\ P1Init
  /\ V1Init
  /\ TpInit
  /\ V2Init
  /\ DlInit
  /\ SfInit
  /\ UiInit
  /\ CrInit
  /\ MsInit
  /\ VtIdle
  /\ AmInit

DlNext ==
  \/ \E th \in ThrowPoints, iso \in IsoTimestamps : Dl_DownloadVideo(th, iso) /\ UNCHANGED DlFrame
  \/ \E b \in BOOLEAN : Dl_SetVideoUrl(b) /\ UNCHANGED DlFrame
  \/ \E n \in 0..MaxChunks : Dl_SetRecordedChunks(n) /\ UNCHANGED DlFrame

DlSpec == DlSpecInit /\ [][DlNext]_vars

\* ------------------------------------------------------------ SfSpec
SfFrame == <<svcVars, hookVars, envVars, p0Vars, p1Vars, v1Vars, tpVars, v2Vars, dlVars, uiVars, crVars, msVars, vtVars, amVars>>

SfSpecInit ==
  /\ SvcIdle
  /\ HookIdle
  /\ EnvFixed
  /\ P0Init
  /\ P1Init
  /\ V1Init
  /\ TpInit
  /\ V2Init
  /\ DlInit
  /\ SfInit
  /\ UiInit
  /\ CrInit
  /\ MsInit
  /\ VtIdle
  /\ AmInit

SfNext ==
  \/ \E name \in {"topicTitle", "seoKeyword"}, v \in FieldValues : Sf_handleInputChange(name, v) /\ UNCHANGED SfFrame
  \/ \E v \in CreatorValues : Sf_handleInputChange("creatorInfo", v) /\ UNCHANGED SfFrame
  \/ \E f \in {"script", "description", "tags"} : Sf_handleEdit(f, "edited") /\ UNCHANGED SfFrame
  \/ Sf_handleSubmit /\ UNCHANGED SfFrame
  \/ Sf_NoticeTimeout /\ UNCHANGED SfFrame
  \/ \E r \in Responses : Sf_FetchSettles(r) /\ UNCHANGED SfFrame

SfSpec == SfSpecInit /\ [][SfNext]_vars

\* ------------------------------------------------------------ UiSpec
UiFrame == <<envVars, p0Vars, p1Vars, v1Vars, tpVars, v2Vars, dlVars, sfVars, crVars, msVars, vtVars, amVars>>

UiSpecInit ==
  /\ SvcIdle
  /\ HookMount
  /\ EnvFixed
  /\ P0Init
  /\ P1Init
  /\ V1Init
  /\ TpInit
  /\ V2Init
  /\ DlInit
  /\ SfInit
  /\ UiInit
  /\ CrInit
  /\ MsInit
  /\ VtIdle
  /\ AmInit

UiNext ==
  \/ \E ok \in BOOLEAN : Ui_StartButton(ok) /\ UNCHANGED UiFrame
  \/ \E ok \in BOOLEAN : Ui_ResumeButton(ok) /\ UNCHANGED UiFrame
  \/ \E ok \in BOOLEAN : Ui_NewRecordingButton(ok) /\ UNCHANGED UiFrame
  \/ Ui_PauseButton /\ UNCHANGED UiFrame
  \/ Ui_StopButton /\ UNCHANGED UiFrame
  \/ \E o \in MicOutcomes, ok \in BOOLEAN : Ui_StartMicSettles(o, ok) /\ UNCHANGED UiFrame
  \/ Ui_StartInitSettles /\ UNCHANGED UiFrame
  \/ \E o \in {"resolved", "rejected"} : Ui_StopSettles(o) /\ UNCHANGED UiFrame
  \/ Ui_TimerTick /\ UNCHANGED UiFrame
  \/ Ui_VideoUrlEffectCleanup /\ UNCHANGED UiFrame
  \/ Ui_CanvasStreamReady /\ UNCHANGED UiFrame
  \/ Ui_CleanupAudioTimer /\ UNCHANGED UiFrame

UiSpec == UiSpecInit /\ [][UiNext]_vars

\* ------------------------------------------------------------ CrSpec
CrFrame == <<svcVars, hookVars, envVars, p0Vars, p1Vars, v1Vars, tpVars, v2Vars, dlVars, sfVars, uiVars, msVars, vtVars, amVars>>

CrSpecInit ==
  /\ SvcIdle
  /\ HookIdle
  /\ EnvFixed
  /\ P0Init
  /\ P1Init
  /\ V1Init
  /\ TpInit
  /\ V2Init
  /\ DlInit
  /\ SfInit
  /\ UiInit
  /\ CrInit
  /\ MsInit
  /\ VtIdle
  /\ AmInit

CrNext ==
  \/ \E r \in BOOLEAN, mode \in {"full", "split"}, d \in 0..MaxDuration : Cr_ParentRender(r, mode, d) /\ UNCHANGED CrFrame
  \/ \E r \in BOOLEAN : Cr_Timeout(r) /\ UNCHANGED CrFrame

CrSpec == CrSpecInit /\ [][CrNext]_vars

\* ------------------------------------------------------------ MsSpec
MsFrame == <<svcVars, hookVars, envVars, p0Vars, p1Vars, v1Vars, tpVars, v2Vars, dlVars, sfVars, uiVars, crVars, vtVars, amVars>>

MsSpecInit ==
  /\ SvcIdle
  /\ HookIdle
  /\ EnvFixed
  /\ P0Init
  /\ P1Init
  /\ V1Init
  /\ TpInit
  /\ V2Init
  /\ DlInit
  /\ SfInit
  /\ UiInit
  /\ CrInit
  /\ MsInit
  /\ VtIdle
  /\ AmInit

MsNext ==
  \/ \E mode \in {"full", "split"} : Ms_ChangeViewMode(mode) /\ UNCHANGED MsFrame
  \/ \E cl \in m_timers : Ms_InitStreamsTimer(cl) /\ UNCHANGED MsFrame
  \/ \E i \in m_hook.inits, ok \in BOOLEAN : Ms_InitSettles(i, ok) /\ UNCHANGED MsFrame
  \/ \E s \in {"idle", "recording", "paused"} : Ms_RecordingState(s) /\ UNCHANGED MsFrame

MsSpec == MsSpecInit /\ [][MsNext]_vars

\* ------------------------------------------------------------ VtSpec
VtFrame == <<svcVars, hookVars, envVars, p0Vars, p1Vars, v1Vars, tpVars, v2Vars, dlVars, sfVars, uiVars, crVars, msVars, amVars>>

VtSpecInit ==
  /\ SvcIdle
  /\ HookIdle
  /\ EnvFixed
  /\ P0Init
  /\ P1Init
  /\ V1Init
  /\ TpInit
  /\ V2Init
  /\ DlInit
  /\ SfInit
  /\ UiInit
  /\ CrInit
  /\ MsInit
  /\ VtInit
  /\ AmInit

VtNext ==
  \/ \E stream \in {"null", "camera"}, gap \in CallGaps : Vt_PulseTrack(stream, gap) /\ UNCHANGED VtFrame
  \/ \E stream \in {"null", "camera"}, gap \in CallGaps : Vt_SyncViewModeChange(stream, gap) /\ UNCHANGED VtFrame
  \/ Vt_TimerFires /\ UNCHANGED VtFrame

VtSpec == VtSpecInit /\ [][VtNext]_vars

\* ------------------------------------------------------------ AmSpec
AmFrame == <<svcVars, hookVars, envVars, p0Vars, p1Vars, v1Vars, tpVars, v2Vars, dlVars, sfVars, uiVars, crVars, msVars, vtVars>>

AmSpecInit ==
  /\ SvcIdle
  /\ HookIdle
  /\ EnvFixed
  /\ P0Init
  /\ P1Init
  /\ V1Init
  /\ TpInit
  /\ V2Init
  /\ DlInit
  /\ SfInit
  /\ UiInit
  /\ CrInit
  /\ MsInit
  /\ VtIdle
  /\ AmInit

AmNext ==
  \/ \E stream \in 0..2, ctxOk \in BOOLEAN, pollOk \in BOOLEAN : Am_StartMonitoring(stream, ctxOk, pollOk) /\ UNCHANGED AmFrame
  \/ Am_StopMonitoring /\ UNCHANGED AmFrame
  \/ \E loop \in a_loops, ok \in BOOLEAN : Am_CheckTimer(loop, ok) /\ UNCHANGED AmFrame

AmSpec == AmSpecInit /\ [][AmNext]_vars

\* ================================================================= claims
\* C1: whenever the hook's recordingState becomes 'recording' as the result
\* of a successful startRecording(), RecordRTCService.startRecording() has run
\* on the active service instance and its isRecording flag is true.
C1_RecordingMeansServiceStarted ==
  [][(h_pc = "start_awaitInit" /\ h_recordingState' = "recording")
       => (svc'.recorder.started /\ svc'.isRecording)]_vars

\* C2: whenever RecordRTCService.initialize() resolves with a recorder
\* created, the combined stream handed to the recorder has at least one audio
\* track, also when no audio stream was supplied and the microphone is denied.
C2_RecorderStreamHasAudio ==
  (s_pc = "resolved" /\ svc.recorder.present) => svc.recorder.audio >= 1

\* C6: every failure inside the hook's startRecording / stopRecording is
\* caught locally: no call rejects, the hook's error becomes a non-empty
\* message and recordingState returns to 'idle'.
C6_FailuresCaughtLocally ==
  [][(h_catches' # h_catches)
       => (/\ h_error' \notin {"none", ""}
           /\ h_recordingState' = "idle"
           /\ h_pc' = "none"
           /\ ~h_rejected')]_vars

\* A stop that failed after a recording had been started and destroyed.
C6_Witness ==
  /\ h_catches = 1
  /\ h_error = "Failed to stop recording: No recorder to stop"
  /\ h_recordingState = "idle"
  /\ svc.destroyed


\* C3: in the VideoRecorder of part_000, a stopRecording() call made while
\* recordingState is 'paused' stops the MediaRecorder (whose stop event then
\* brings the state to 'idle' with videoUrl or error set).
C3_StopWhilePausedStopsRecorder ==
  [][(p0_recordingState = "paused" /\ p0_stopCalls' # p0_stopCalls)
       => (p0_mr' = "inactive" /\ p0_stop' # "none")]_vars

\* C4: in the VideoRecorder of part_001, every frame the compositor draws
\* while a recording is in progress uses the layout of the view mode that is
\* selected at that moment, so a toggleViewMode during recording shows in
\* every later frame.
C4_FramesFollowViewMode ==
  [][(p1_frames' # p1_frames /\ p1_recordingState = "recording")
       => p1_frameLayout' = LayoutOf(p1_viewMode')]_vars

\* C5: in the first VideoRecorder of VideoRecorder.tsx, a drawFrame that runs
\* while recordingState is 'recording' or 'paused' and the recorder has not
\* been stopped schedules the next animation frame.
C5_DrawLoopKeepsScheduling ==
  [][(/\ v1_frames' # v1_frames
      /\ v1_recordingState \in {"recording", "paused"}
      /\ v1_ref
      /\ v1_mr # "inactive")
       => v1_loop' # "none"]_vars

\* C7: every recorder is created with the MIME type the runtime probe chooses:
\* the first entry of the probe list that isTypeSupported accepts, 'video/webm'
\* when none is accepted.
C7_RecorderMimeIsProbed ==
  svc.recorder.present => svc.recorder.mimeType = getSupportedMimeType(env_supported)

\* C8 as stated: downloadVideo triggers a download named recording_<ISO>.webm
\* exactly when videoUrl is non-null and recordedChunks is non-empty; otherwise
\* it reports 'No video data available to download' through setError, triggers
\* no download and reports nothing through setStatus.
C8_DownloadIffVideoData ==
  dl_call.called =>
    /\ dl_call.clicked <=> (dl_call.videoUrl /\ dl_call.chunks > 0)
    /\ dl_call.clicked => \E iso \in IsoTimestamps : dl_call.filename = "recording_" \o iso \o ".webm"
    /\ ~(dl_call.videoUrl /\ dl_call.chunks > 0)
         => /\ dl_call.error = <<"No video data available to download">>
            /\ dl_call.status = <<>>

\* C8 amended: a download is triggered only when videoUrl is non-null and
\* recordedChunks is non-empty, and is triggered, named recording_<ISO>.webm,
\* whenever that holds and nothing before the click throws; without video data
\* the only effect is setError('No video data available to download'); when a
\* step before the click throws, no download happens and the error is reported
\* through setError after 'Preparing video for download...' was reported.
C8_DownloadWhenVideoDataAndNoThrow ==
  dl_call.called =>
    /\ dl_call.clicked
         <=> ((dl_call.videoUrl /\ dl_call.chunks > 0) /\ dl_call.throws # "beforeClick")
    /\ dl_call.clicked => \E iso \in IsoTimestamps : dl_call.filename = "recording_" \o iso \o ".webm"
    /\ ~(dl_call.videoUrl /\ dl_call.chunks > 0)
         => /\ dl_call.error = <<"No video data available to download">>
            /\ dl_call.status = <<>>
    /\ ((dl_call.videoUrl /\ dl_call.chunks > 0) /\ dl_call.throws = "beforeClick")
         => /\ dl_call.status = <<"Preparing video for download...">>
            /\ Len(dl_call.error) = 1

\* A call with video data that triggered the download.
C8_Witness ==
  /\ dl_call.called
  /\ dl_call.videoUrl
  /\ dl_call.chunks = MaxChunks
  /\ dl_call.clicked
  /\ dl_call.filename = "recording_2025-01-01T00:00:00.000Z.webm"
  /\ dl_call.status = <<"Preparing video for download...", "Video downloaded successfully!">>

\* C9: a ScriptForm submit with non-blank topicTitle and seoKeyword sends
\* exactly one POST /generate-content whose body is the form data; a submit
\* with either field blank sends nothing and sets the validation error; a
\* successful response makes the returned script, description and tags both
\* the displayed and the editable values.
C9_SubmitSendsOneRequest ==
  [][/\ (sf_submits' # sf_submits) =>
          IF \/ \A i \in DOMAIN sf_formData.topicTitle :
                     sf_formData.topicTitle[i] \in {" ", "\t", "\n"}
             \/ \A i \in DOMAIN sf_formData.seoKeyword :
                     sf_formData.seoKeyword[i] \in {" ", "\t", "\n"}
          THEN /\ sf_requests' = sf_requests
               /\ sf_lastRequest' = sf_lastRequest
               /\ sf_error' = "Please fill in both the topic title and SEO keyword"
          ELSE /\ sf_requests' = sf_requests + 1
               /\ sf_lastRequest' = [method |-> "POST", url |-> "/generate-content",
                                     body |-> [topicTitle |-> sf_formData.topicTitle,
                                               seoKeyword |-> sf_formData.seoKeyword,
                                               creatorInfo |-> sf_formData.creatorInfo]]
     /\ (sf_submits' = sf_submits) => sf_requests' = sf_requests
     /\ (sf_pc = "awaitFetch" /\ sf_pc' = "none" /\ sf_lastResponse'.kind = "ok") =>
          /\ sf_generated' = sf_lastResponse'.data
          /\ sf_editable' = sf_lastResponse'.data]_vars

\* A submit with surrounding whitespace in the title was sent untrimmed and
\* its response replaced an edited script.
C9_Witness ==
  /\ sf_requests = 1
  /\ sf_lastRequest.method = "POST"
  /\ sf_lastRequest.body.topicTitle = <<" ", "b", " ">>
  /\ sf_lastResponse.kind = "ok"
  /\ sf_generated.script = "script-1"
  /\ sf_editable = sf_generated
  /\ ~sf_isLoading

\* C10: starting, pausing, resuming or stopping a recording never changes
\* whether the teleprompter is displayed nor resets its scroll state, and the
\* teleprompter's actions never change recordingState.
C10_TeleprompterIndependent ==
  [][/\ (v2_recordingState' # v2_recordingState) =>
          /\ V2Displayed' = V2Displayed
          /\ tp_scrollTop' = tp_scrollTop
          /\ tp_isPlaying' = tp_isPlaying
     /\ (\/ V2Displayed /\ V2Displayed' /\ tpVars' # tpVars
         \/ v2_showTeleprompter' # v2_showTeleprompter) =>
          v2_recordingState' = v2_recordingState]_vars


\* C11 (as stated): after any sequence of start, pause, resume and stop calls
\* on useRecording, recordingState is one of 'idle', 'recording', 'paused'.
C11_ThreeStates ==
  h_recordingState \in {"idle", "recording", "paused"}

\* C11 (amended): recordingState is one of 'idle', 'recording', 'paused' or
\* 'processing', and it is 'processing' only while a startRecording or
\* stopRecording call is suspended at one of its awaits; once the call has
\* returned the state is 'idle', 'recording' or 'paused'.
C11_FourStatesProcessingInFlight ==
  /\ h_recordingState \in {"idle", "recording", "paused", "processing"}
  /\ (h_recordingState = "processing") => (h_pc # "none")
  /\ (h_pc = "none") => (h_recordingState \in {"idle", "recording", "paused"})

\* A stopRecording call of a started recording waiting for the recorder.
C11_Witness ==
  /\ h_recordingState = "processing"
  /\ h_pc = "stop_awaitStop"
  /\ svc.recorder.present

\* C12: the RecordRTCService instance created by useRecording.startRecording
\* is never destroyed while its recording is in progress, that is from its
\* construction until stopRecording has obtained the blob and published
\* videoUrl; the cleanup of the effect keyed on [videoUrl] included.
C12_ServiceSurvivesRecording ==
  [][(svc'.id = svc.id /\ ~svc.destroyed /\ svc'.destroyed)
       => ~(\/ h_pc \in {"start_awaitInit", "stop_awaitStop"}
            \/ (h_recordingState \in {"recording", "paused"} /\ h_videoUrl = 0))]_vars

\* C14: cleanupAudioResources, scheduled 1000 ms after a recording completes,
\* never executes while a later recording is in the 'processing', 'recording'
\* or 'paused' state, and so never stops the audio stream of a recording in
\* progress.
C14_CleanupOnlyWhenComplete ==
  [][(u_cleanupTimers' < u_cleanupTimers)
       => h_recordingState \notin {"processing", "recording", "paused"}]_vars

\* C15: pressing 'Resume Recording' while recordingState is 'paused'
\* continues the same recording: recordingDuration is not reset to 0 and the
\* RecordRTCService instance holding the recording is not replaced.
C15_ResumeContinuesRecording ==
  [][(u_resumePresses' # u_resumePresses)
       => (/\ h_recordingDuration' = h_recordingDuration
           /\ svc'.id = svc.id)]_vars

\* C13: in CanvasRecorder, while isRecording is true the canvas capture
\* stream is never re-initialized: its tracks are not stopped and
\* onCanvasStreamReady is not called with a replacement stream, whatever
\* view-mode changes and re-renders (recordingDuration updates) happen.
C13_StreamStableWhileRecording ==
  [][(c_isRecording /\ c_isRecording')
       => (c_stream' = c_stream /\ c_ready' = c_ready)]_vars

\* C16: in the second VideoRecorder, the blob built by the timeout of
\* stopRecording is made of the chunk list of the recording that was stopped
\* (the list has not been replaced by a later startRecording), and videoUrl is
\* set only while recordingState is 'idle', also when startRecording is
\* called again within the 500 ms delay.
C16_BlobOfStoppedRecording ==
  [][(v2_timeouts # <<>> /\ v2_timeouts' = Tail(v2_timeouts))
       => (/\ (v2_chunks > 0) => (v2_recordingState = "idle")
           /\ Head(v2_timeouts) = IF v2_recordingState = "idle"
                                  THEN v2_stops ELSE v2_stops + 1)]_vars

C18_OneInitializationAtATime ==
  Cardinality(m_hook.inits) <= 1

\* C19: once every scheduled timer has fired after syncViewModeChange and
\* pulseTrack calls on a stream, the enabled flag of its first video track
\* equals the value it had before the first call.
C19_EnabledRestored ==
  (vt_calls > 0 /\ vt_timers = <<>>) => vt_enabled = vt_initial

\* C20: the AudioMonitor has at most one audio-level polling loop running,
\* whatever the sequence of startMonitoring and stopMonitoring calls: a
\* checkAudioLevels timeout that polls and schedules itself again is the only
\* one pending.
C20_OnePollingLoop ==
  [][(a_polls' = a_polls + 1 /\ a_created' = a_created /\ a_loops' = a_loops)
       => Cardinality(a_loops) <= 1]_vars
====
